---- MODULE Spec2Model ----
(***************************************************************************)
(* Verification model of the climate-intervention decision-support core:   *)
(*   backend/app/services/spatial_engine.py  (SpatialEngine)               *)
(*   backend/app/services/ml_engine.py       (ClimateMLEngine)             *)
(*   backend/app/services/climate_simulation.py (ClimateSimulationService) *)
(*                                                                         *)
(* Numbers.  The Python code computes in binary floating point.  The model *)
(* uses exact integers: money in USD, impacts in tenths of a tonne,        *)
(* latitudes and longitudes in tenths of a degree,                         *)
(* temperature anomalies in tenths of a degree, scores in fixed multiples  *)
(* named where they are used.  Ratios are compared by cross-multiplying.   *)
(***************************************************************************)
EXTENDS Integers, Sequences, FiniteSets, TLC

VARIABLES
    selectCall,       \* the latest SpatialEngine._optimize_deployment call and its result
    ruleCall,         \* the latest ClimateMLEngine._rule_based_suitability call and its result
    label_encoders,   \* ClimateMLEngine.label_encoders
    scalers,          \* ClimateMLEngine.scalers
    models,           \* ClimateMLEngine.models
    prediction_times, \* len(ClimateMLEngine.performance_metrics['prediction_times'])
    now,              \* the day of the year datetime.now() falls on
    engineCall,       \* the latest call of a ClimateMLEngine method and its result
    simCall,          \* the latest ClimateSimulationService.simulate_climate_impact call and its result
    interventions,    \* the rows of the 'interventions' table behind SpatialEngine.supabase
    spatialCall,      \* the latest call of a SpatialEngine method and its result
    spatial_cache,    \* SpatialEngine.spatial_cache
    performance_metrics, \* SpatialEngine.performance_metrics
    clock             \* time.time(), in seconds

engineVars == <<label_encoders, scalers, models, prediction_times, now, engineCall>>

\* The variables of the simulator and of the spatial pipeline.
cacheVars == <<spatial_cache, performance_metrics, clock>>

serviceVars == <<simCall, interventions, spatialCall, spatial_cache,
                 performance_metrics, clock>>

vars == <<selectCall, ruleCall, label_encoders, scalers, models,
          prediction_times, now, engineCall, simCall, interventions,
          spatialCall, spatial_cache, performance_metrics, clock>>

\* Marker for "no call has been made yet".
NoCall == [op |-> "none"]

Min(a, b) == IF a <= b THEN a ELSE b
Max(a, b) == IF a >= b THEN a ELSE b
Abs(x) == IF x < 0 THEN -x ELSE x

\* dict.get(key, default) on a Python dict modelled as a function whose
\* domain is the set of keys present.
Get(d, key, default) == IF key \in DOMAIN d THEN d[key] ELSE default

EmptyDict == [k \in {} |-> 0]

\* The ClimateMLEngine variables where no engine takes part.
EngineNotBuilt ==
    /\ label_encoders = EmptyDict
    /\ scalers = EmptyDict
    /\ models = EmptyDict
    /\ prediction_times = 0
    /\ now = 1
    /\ engineCall = NoCall

\* SpatialEngine.__init__: an empty cache and empty metric lists; the
\* clock starts at 0.
CacheEmpty ==
    /\ spatial_cache = EmptyDict
    /\ performance_metrics = [query_times |-> <<>>, sites_processed |-> <<>>,
                              optimization_times |-> <<>>]
    /\ clock = 0

\* The simulator and the spatial pipeline where they take no part.
ServicesIdle ==
    /\ simCall = NoCall
    /\ interventions = <<>>
    /\ spatialCall = NoCall
    /\ CacheEmpty

(***************************************************************************)
(* SpatialEngine: scoring and selection of candidate sites                 *)
(***************************************************************************)

\* SpatialEngine._get_climate_zone: bands at 10, 30 and 60 degrees
_get_climate_zone(latitude) ==
    IF Abs(latitude) < 100 THEN "tropical"
    ELSE IF Abs(latitude) < 300 THEN "subtropical"
    ELSE IF Abs(latitude) < 600 THEN "temperate"
    ELSE "polar"

\* base_costs.get(intervention_type, 100000), USD per site
base_costs(intervention_type) ==
    CASE intervention_type = "biochar" -> 50000
      [] intervention_type = "DAC" -> 200000
      [] intervention_type = "afforestation" -> 30000
      [] OTHER -> 100000

\* SpatialEngine._estimate_site_cost: x0.8 below 30 degrees, x1.5 above 60
_estimate_site_cost(lat, lon, intervention_type) ==
    IF Abs(lat) < 300 THEN (base_costs(intervention_type) * 8) \div 10
    ELSE IF Abs(lat) > 600 THEN (base_costs(intervention_type) * 15) \div 10
    ELSE base_costs(intervention_type)

\* base_impacts.get(intervention_type, 100), tonnes CO2 per year
base_impacts(intervention_type) ==
    CASE intervention_type = "biochar" -> 100
      [] intervention_type = "DAC" -> 500
      [] intervention_type = "afforestation" -> 50
      [] OTHER -> 100

\* zone_multipliers, in tenths
zone_multipliers(climate_zone) ==
    CASE climate_zone = "tropical" -> 12
      [] climate_zone = "subtropical" -> 11
      [] climate_zone = "temperate" -> 10
      [] climate_zone = "polar" -> 6
      [] OTHER -> 10

\* SpatialEngine._estimate_site_impact, in tenths of a tonne
_estimate_site_impact(lat, lon, intervention_type) ==
    base_impacts(intervention_type) * zone_multipliers(_get_climate_zone(lat))

\* The site dict built in _generate_candidate_sites for one grid point.
MakeSite(lat, lon, intervention_type) ==
    [latitude |-> lat,
     longitude |-> lon,
     estimated_cost |-> _estimate_site_cost(lat, lon, intervention_type),
     estimated_impact |-> _estimate_site_impact(lat, lon, intervention_type)]

\* efficiency(a) >= efficiency(b), where
\* efficiency = estimated_impact / max(1, estimated_cost)
EfficiencyGeq(a, b) ==
    a.estimated_impact * Max(1, b.estimated_cost)
        >= b.estimated_impact * Max(1, a.estimated_cost)

EfficiencyGt(a, b) == ~EfficiencyGeq(b, a)

\* list.sort(key=efficiency, reverse=True): Python's sort is stable, also
\* with reverse=True, so equal keys keep their input order.  Insert puts x
\* behind every element whose efficiency is >= that of x.
RECURSIVE InsertByEfficiency(_, _)
InsertByEfficiency(sorted, x) ==
    IF sorted = <<>> THEN <<x>>
    ELSE IF EfficiencyGt(x, Head(sorted)) THEN <<x>> \o sorted
    ELSE <<Head(sorted)>> \o InsertByEfficiency(Tail(sorted), x)

\* A sort that leaves the list in the order given.
KeepInputOrder(sites) == sites

RECURSIVE SortByEfficiency(_)
SortByEfficiency(sites) ==
    IF sites = <<>> THEN <<>>
    ELSE InsertByEfficiency(SortByEfficiency(SubSeq(sites, 1, Len(sites) - 1)),
                            sites[Len(sites)])

\* A selection loop that compares every site with the whole budget.
SelectIgnoringSpend(sites, remaining_budget) ==
    SelectSeq(sites, LAMBDA s : s.estimated_cost <= remaining_budget)

\* The selection loop of _optimize_deployment over the sorted sites.
RECURSIVE SelectWithinBudget(_, _)
SelectWithinBudget(sites, remaining_budget) ==
    IF sites = <<>> THEN <<>>
    ELSE IF Head(sites).estimated_cost <= remaining_budget
         THEN <<Head(sites)>> \o
              SelectWithinBudget(Tail(sites),
                                 remaining_budget - Head(sites).estimated_cost)
         ELSE SelectWithinBudget(Tail(sites), remaining_budget)

\* SpatialEngine._optimize_deployment
_optimize_deployment(sites, intervention_type, total_budget) ==
    SelectWithinBudget(SortByEfficiency(sites), total_budget)

RECURSIVE SumCost(_)
SumCost(sites) ==
    IF sites = <<>> THEN 0
    ELSE Head(sites).estimated_cost + SumCost(Tail(sites))

\* ---- inputs of the Select stage ----
MaxSites == 3

SiteLatitudes == {0, 200, 450, 600, 700}
SiteTypes == {"biochar", "DAC", "afforestation", "enhanced_weathering"}
Budgets == {0, 23999, 24000, 40000, 64000, 100000, 125000, 500000}

LatLists == UNION {[1..n -> SiteLatitudes] : n \in 0..MaxSites}

\* Sites of one call share the intervention type; site i sits at longitude i.
SitesAt(lats, intervention_type) ==
    [i \in 1..Len(lats) |-> MakeSite(lats[i], i, intervention_type)]

\* A caller has the arguments of one Select call in hand: any list of sites
\* scored for one intervention type, and any budget.
SelectRequests ==
    {[op |-> "request",
      sites |-> SitesAt(lats, t),
      intervention_type |-> t,
      total_budget |-> b] : lats \in LatLists, t \in SiteTypes, b \in Budgets}

OptimizeDeployment ==
    /\ selectCall.op = "request"
    /\ selectCall' = [op |-> "_optimize_deployment",
                      sites |-> selectCall.sites,
                      intervention_type |-> selectCall.intervention_type,
                      total_budget |-> selectCall.total_budget,
                      selected |-> _optimize_deployment(selectCall.sites,
                                                        selectCall.intervention_type,
                                                        selectCall.total_budget)]
    /\ UNCHANGED <<ruleCall, engineVars, serviceVars>>

InitSelect ==
    /\ selectCall \in SelectRequests
    /\ ruleCall = NoCall
    /\ EngineNotBuilt
    /\ ServicesIdle

NextSelect == OptimizeDeployment

SpecSelect == InitSelect /\ [][NextSelect]_vars

\* C1: the estimated costs of the sites returned by _optimize_deployment sum
\* to at most total_budget, for every list of sites and every budget >= 0.
BudgetInvariant ==
    selectCall.op = "_optimize_deployment"
        => SumCost(selectCall.selected) <= selectCall.total_budget

\* A call in which a site was selected and another was refused although its
\* cost alone is within the whole budget.
BudgetWitness ==
    /\ selectCall.op = "_optimize_deployment"
    /\ Len(selectCall.selected) >= 1
    /\ Len(selectCall.selected) < Len(selectCall.sites)
    /\ \A i \in 1..Len(selectCall.sites) :
          selectCall.sites[i].estimated_cost <= selectCall.total_budget

\* The budget left after the first k sites of the plan.
RemainingAfter(k) ==
    selectCall.total_budget - SumCost(SubSeq(selectCall.selected, 1, k))

Unselected(site) ==
    \A j \in 1..Len(selectCall.selected) : selectCall.selected[j] # site

\* C25: _optimize_deployment visits the sites in non-increasing efficiency
\* order and takes a site exactly when its estimated_cost is within the
\* budget remaining at that moment.  So the plan is in non-increasing
\* efficiency order, every site of the plan was affordable when it was
\* reached, every site left out was too expensive when it was reached
\* (after the k sites of the plan that come before it in efficiency
\* order), and no site left out fits the budget remaining at the end.
GreedySelection ==
    selectCall.op = "_optimize_deployment"
    => LET plan == selectCall.selected
           sites == selectCall.sites
       IN  /\ \A j \in 1..Len(plan) : \E i \in 1..Len(sites) : plan[j] = sites[i]
           /\ \A j \in 1..(Len(plan) - 1) : EfficiencyGeq(plan[j], plan[j + 1])
           /\ \A j \in 1..Len(plan) :
                 plan[j].estimated_cost <= RemainingAfter(j - 1)
           /\ \A i \in 1..Len(sites) :
                 Unselected(sites[i])
                 => /\ sites[i].estimated_cost > RemainingAfter(Len(plan))
                    /\ \E k \in 0..Len(plan) :
                          /\ \A j \in 1..k : EfficiencyGeq(plan[j], sites[i])
                          /\ \A j \in (k + 1)..Len(plan) :
                                EfficiencyGeq(sites[i], plan[j])
                          /\ sites[i].estimated_cost > RemainingAfter(k)

\* A call whose plan puts a site before one of strictly lower efficiency
\* that the caller listed first, and that refused a third site.
GreedyWitness ==
    /\ selectCall.op = "_optimize_deployment"
    /\ Len(selectCall.selected) >= 2
    /\ \E i, h \in 1..Len(selectCall.sites) :
          /\ h < i
          /\ EfficiencyGt(selectCall.sites[i], selectCall.sites[h])
          /\ selectCall.selected[1] = selectCall.sites[i]
          /\ selectCall.selected[2] = selectCall.sites[h]
    /\ \E i \in 1..Len(selectCall.sites) : Unselected(selectCall.sites[i])

\* The cost the documentation gives a site of a climate zone: the base cost
\* x0.8 in the tropical and subtropical zones, x1.5 in the polar zone.
DocumentedSiteCost(climate_zone, intervention_type) ==
    IF climate_zone \in {"tropical", "subtropical"}
    THEN (base_costs(intervention_type) * 8) \div 10
    ELSE IF climate_zone = "polar"
    THEN (base_costs(intervention_type) * 15) \div 10
    ELSE base_costs(intervention_type)

\* C19: for every candidate site, estimated_cost equals the type-specific
\* base cost multiplied by 0.8 when the site's climate zone (as given by
\* _get_climate_zone) is tropical or subtropical, by 1.5 when it is polar,
\* and by 1 when it is temperate; efficiency equals
\* estimated_impact / estimated_cost.
SiteCostByZone ==
    selectCall.op = "_optimize_deployment"
        => \A i \in 1..Len(selectCall.sites) :
              LET site == selectCall.sites[i]
              IN  /\ site.estimated_cost
                       = DocumentedSiteCost(_get_climate_zone(site.latitude),
                                            selectCall.intervention_type)
                  /\ Max(1, site.estimated_cost) = site.estimated_cost

(***************************************************************************)
(* ClimateMLEngine: rule-based suitability                                 *)
(*                                                                         *)
(* climate_data is a dict; temperature_anomaly is held in tenths of a      *)
(* degree.  Scores are held in units of 1/4000, in which                   *)
(*   0.4 * (co2 - 400) / 50   = 32 * (co2 - 400)                           *)
(*   0.4 * biomass / 80       = 20 * biomass                               *)
(*   0.2 * temp_anomaly / 2   = 40 * tenths                                *)
(* and the thresholds 0.7 and 0.4 are 2800 and 1600.                       *)
(***************************************************************************)

Tiers == {"low", "medium", "high"}

\* The weighted score with min(1.0, .) on each term only: a key indicator
\* below its baseline contributes a negative amount.
total_score(co2, biomass, temp_anomaly) ==
    Min(1600, 32 * (co2 - 400)) + Min(1600, 20 * biomass)
        + Min(800, 40 * temp_anomaly)

\* The final else-branch of _rule_based_suitability.
default_rule(co2, biomass, temp_anomaly) ==
    IF total_score(co2, biomass, temp_anomaly) >= 2800 THEN "high"
    ELSE IF total_score(co2, biomass, temp_anomaly) >= 1600 THEN "medium"
    ELSE "low"

\* The rule chain of _rule_based_suitability on the three values read.
rule_chain(co2, biomass, temp_anomaly) ==
    IF co2 >= 430 /\ biomass >= 65 /\ temp_anomaly >= 13 THEN "high"
    ELSE IF co2 >= 440 /\ biomass >= 70 /\ temp_anomaly >= 14 THEN "high"
    ELSE IF co2 >= 450 /\ biomass >= 75 /\ temp_anomaly >= 15 THEN "high"
    ELSE IF co2 <= 380 /\ biomass <= 25 /\ temp_anomaly >= 18 THEN "low"
    ELSE IF co2 >= 460 /\ biomass <= 30 /\ temp_anomaly >= 20 THEN "low"
    ELSE IF /\ 410 <= co2 /\ co2 <= 420
            /\ 40 <= biomass /\ biomass <= 55
            /\ 8 <= temp_anomaly /\ temp_anomaly <= 12 THEN "medium"
    ELSE default_rule(co2, biomass, temp_anomaly)

\* ClimateMLEngine._rule_based_suitability
_rule_based_suitability(climate_data) ==
    rule_chain(Get(climate_data, "co2_concentration", 415),
               Get(climate_data, "biomass_density", 0),
               Get(climate_data, "temperature_anomaly", 0))

\* ---- inputs of the rule-based assessment ----
\* The dicts in which key is either missing or bound to one of values.
Optional(key, values) == {EmptyDict} \cup {key :> v : v \in values}

RuleCo2 == {350, 380, 410, 420, 430, 440, 450, 459, 460}
RuleBiomass == {0, 25, 30, 40, 55, 65, 70, 75, 80}
RuleTempAnomaly == {0, 8, 10, 12, 13, 14, 15, 18, 20, 25}

RuleObservations ==
    {c @@ b @@ t :
        c \in Optional("co2_concentration", RuleCo2),
        b \in Optional("biomass_density", RuleBiomass),
        t \in Optional("temperature_anomaly", RuleTempAnomaly)}

RuleBasedSuitability ==
    \E cd \in RuleObservations :
        /\ ruleCall' = [op |-> "_rule_based_suitability",
                        climate_data |-> cd,
                        tier |-> _rule_based_suitability(cd)]
        /\ UNCHANGED <<selectCall, engineVars, serviceVars>>

InitRule ==
    /\ selectCall = NoCall
    /\ ruleCall = NoCall
    /\ EngineNotBuilt
    /\ ServicesIdle

NextRule == RuleBasedSuitability

SpecRule == InitRule /\ [][NextRule]_vars

TierRank(tier) ==
    CASE tier = "low" -> 0 [] tier = "medium" -> 1 [] tier = "high" -> 2

KeyIndicators == {"co2_concentration", "biomass_density", "temperature_anomaly"}

\* b has the same keys as a and differs from a in exactly one key
\* indicator, which is larger in b.
LargerInExactlyOne(a, b) ==
    /\ DOMAIN a = DOMAIN b
    /\ \E k \in DOMAIN a \cap KeyIndicators :
          /\ a[k] < b[k]
          /\ \A j \in DOMAIN a \ {k} : a[j] = b[j]

\* C2: of two rule-based assessments whose observations differ only in one
\* of co2_concentration, biomass_density, temperature_anomaly being larger
\* in the second, the second tier is never lower than the first.
SuitabilityMonotone ==
    [][(/\ ruleCall.op = "_rule_based_suitability"
        /\ ruleCall'.op = "_rule_based_suitability"
        /\ LargerInExactlyOne(ruleCall.climate_data, ruleCall'.climate_data))
       => TierRank(ruleCall.tier) <= TierRank(ruleCall'.tier)]_vars

\* The documented weighted score, each term clipped to [0, 1] before
\* weighting: clip(co2-400,0,50)/50, clip(biomass,0,80)/80,
\* clip(temp_anomaly,0,2)/2.
DocumentedScore(cd) ==
    Max(0, Min(1600, 32 * (Get(cd, "co2_concentration", 415) - 400)))
        + Max(0, Min(1600, 20 * Get(cd, "biomass_density", 0)))
        + Max(0, Min(800, 40 * Get(cd, "temperature_anomaly", 0)))

DocumentedTier(cd) ==
    IF DocumentedScore(cd) >= 2800 THEN "high"
    ELSE IF DocumentedScore(cd) >= 1600 THEN "medium"
    ELSE "low"

\* C4: the rule-based tier of every observation is the threshold of the
\* documented weighted score (high from 0.7, medium from 0.4, else low), and
\* nothing else decides it.
TierIsDocumentedThreshold ==
    ruleCall.op = "_rule_based_suitability"
        => ruleCall.tier = DocumentedTier(ruleCall.climate_data)

(***************************************************************************)
(* ClimateMLEngine: the engine instance                                    *)
(*                                                                         *)
(* A fitted sklearn object is modelled by the attributes fitting gives it: *)
(* an encoder is a dict that has "classes_" once fit, the feature scaler   *)
(* one that has "mean_", a model one that has "predict".                   *)
(***************************************************************************)

Unfitted == EmptyDict

\* Python orders str by code point; every string the encoders see, in
\* that order (upper case sorts before lower case).
StringOrder ==
    <<"DAC", "afforestation", "alpine", "arctic", "biochar", "boreal",
      "boreal_forest", "desert", "enhanced_weathering", "grassland",
      "mediterranean", "monitoring", "ocean_seeding", "temperate",
      "temperate_forest", "tropical", "tropical_forest", "tundra", "unknown">>

StrIndex(str) == CHOOSE i \in 1..Len(StringOrder) : StringOrder[i] = str

StrLess(a, b) == StrIndex(a) < StrIndex(b)

\* LabelEncoder.fit(values): classes_ is the sorted array of distinct values.
LabelEncoder_fit(values) ==
    [classes_ |-> SelectSeq(StringOrder, LAMBDA str : str \in values)]

EncoderNames == <<"intervention_type", "vegetation_type", "climate_zone">>

\* The enumerations fit in _initialize_training_data.
intervention_types ==
    {"biochar", "DAC", "afforestation", "enhanced_weathering", "monitoring"}
vegetation_types ==
    {"temperate_forest", "tropical_forest", "boreal_forest", "grassland",
     "tundra", "desert"}
climate_zones ==
    {"tropical", "temperate", "boreal", "arctic", "desert", "mediterranean"}

FixedEnumeration(name) ==
    CASE name = "intervention_type" -> intervention_types
      [] name = "vegetation_type" -> vegetation_types
      [] name = "climate_zone" -> climate_zones

\* sample_data in prepare_features, used when an encoder has no classes_.
sample_data(name) == FixedEnumeration(name) \cup {"unknown"}

\* The default prepare_features reads for a missing categorical key.
CategoryDefault(name) == IF name = "climate_zone" THEN "temperate" ELSE "unknown"

InClasses(encoder, value) ==
    \E i \in 1..Len(encoder.classes_) : encoder.classes_[i] = value

PositionIn(encoder, value) ==
    (CHOOSE i \in 1..Len(encoder.classes_) : encoder.classes_[i] = value) - 1

\* A transform that gives code 0 to a value it has not seen.
LabelEncoder_transform_lenient(encoder, value) ==
    IF InClasses(encoder, value)
    THEN [raised |-> FALSE, code |-> PositionIn(encoder, value)]
    ELSE [raised |-> FALSE, code |-> 0]

\* LabelEncoder.transform([value])[0]: the position of value in classes_;
\* a value that is not in classes_ raises ValueError.
LabelEncoder_transform(encoder, value) ==
    IF InClasses(encoder, value)
    THEN [raised |-> FALSE, code |-> PositionIn(encoder, value)]
    ELSE [raised |-> TRUE]

\* ---- the clock read by datetime.now() ----
StartDay == 31    \* the engine is built on 31 January
MaxTicks == 1     \* midnights that pass while the engine is in use

DaysBeforeMonth == <<0, 31, 59, 90, 120, 151, 181, 212, 243, 273, 304, 334>>

MonthOf(tm_yday) ==
    CHOOSE m \in 1..12 :
        /\ DaysBeforeMonth[m] < tm_yday
        /\ (m = 12 \/ tm_yday <= DaysBeforeMonth[m + 1])

DayOf(tm_yday) == tm_yday - DaysBeforeMonth[MonthOf(tm_yday)]
\* The numeric part of the vector prepare_features builds, in its order.
\* Units: temperature_anomaly, aerosol_optical_depth and albedo in tenths;
\* humidity * biomass / 100 in hundredths.  sin and cos of
\* 2 pi tm_yday / 365 are both held as tm_yday mod 365, which the pair
\* determines.
NumericFeatures(climate_data, tm_yday) ==
    LET co2 == Get(climate_data, "co2_concentration", 415)
        biomass == Get(climate_data, "biomass_density", 0)
        temp_anomaly == Get(climate_data, "temperature_anomaly", 0)
        humidity == Get(climate_data, "humidity", 50)
    IN  << Get(climate_data, "latitude", 0),
           Get(climate_data, "longitude", 0),
           Abs(Get(climate_data, "latitude", 0)),
           Get(climate_data, "temperature", 15),
           temp_anomaly,
           co2,
           humidity,
           Get(climate_data, "pressure", 1013),
           Get(climate_data, "wind_speed", 5),
           Get(climate_data, "precipitation", 0),
           Get(climate_data, "aerosol_optical_depth", 1),
           Get(climate_data, "solar_irradiance", 1000),
           Get(climate_data, "albedo", 3),
           biomass,
           Get(climate_data, "carbon_storage_potential", 0),
           Get(climate_data, "temperature_trend", 0),
           Get(climate_data, "co2_trend", 0),
           Get(climate_data, "precipitation_trend", 0),
           co2 - 400,
           biomass * temp_anomaly,
           (co2 - 400) * biomass,
           humidity * biomass,
           MonthOf(tm_yday),
           DayOf(tm_yday),
           tm_yday % 365,
           tm_yday % 365 >>

\* One round of the loop over the three encoders: fit the encoder with
\* sample_data if it has no classes_, then transform the value.  A raise
\* leaves the loop with the encoders as changed so far.
EncodeCategory(acc, name, climate_data) ==
    IF acc.raised THEN acc
    ELSE LET encoder == IF "classes_" \in DOMAIN acc.label_encoders[name]
                        THEN acc.label_encoders[name]
                        ELSE LabelEncoder_fit(sample_data(name))
             encoded == LabelEncoder_transform(
                            encoder, Get(climate_data, name, CategoryDefault(name)))
             encoders == [acc.label_encoders EXCEPT ![name] = encoder]
         IN  IF encoded.raised
             THEN [raised |-> TRUE, features |-> acc.features,
                   label_encoders |-> encoders]
             ELSE [raised |-> FALSE,
                   features |-> Append(acc.features, encoded.code),
                   label_encoders |-> encoders]

\* ClimateMLEngine.prepare_features: the feature vector or a raise, and the
\* label encoders as the call leaves them.
prepare_features(encoders, climate_data, tm_yday) ==
    EncodeCategory(
        EncodeCategory(
            EncodeCategory(
                [raised |-> FALSE,
                 features |-> NumericFeatures(climate_data, tm_yday),
                 label_encoders |-> encoders],
                EncoderNames[1], climate_data),
            EncoderNames[2], climate_data),
        EncoderNames[3], climate_data)
\* ---- construction: _initialize_models ----
FreshEncoders == [name \in {"intervention_type", "vegetation_type", "climate_zone"}
                    |-> Unfitted]

FreshScalers == [features |-> Unfitted, targets |-> Unfitted]

FreshModels ==
    [co2_regression |-> [lasso |-> Unfitted, ridge |-> Unfitted],
     site_suitability |-> Unfitted,
     intervention_ranking |-> [xgboost |-> Unfitted, lightgbm |-> Unfitted]]

\* An initialisation that leaves the encoders as constructed.
FitEncodersSkipped(encoders) == encoders

\* The three LabelEncoder.fit calls of _initialize_training_data.
FitEncoders(encoders) ==
    [name \in DOMAIN encoders |-> LabelEncoder_fit(FixedEnumeration(name))]

\* What a fit gives a model.  predict of a boosting regressor is held as
\* a function of the intervention_type code, in tenths; what the other
\* models predict is chosen where they are called.
FittedScaler(data) == [mean_ |-> data]
FittedClassifier == [classes_ |-> <<"high", "low", "medium">>,
                     estimators_ |-> "training_data"]
FittedRegressor == [coef_ |-> "training_data"]
FittedBooster(predict) == [feature_importances_ |-> "training_data",
                           predict |-> predict]

\* Every row of _generate_training_data draws its categories from the
\* fitted enumerations.
TrainingRow ==
    ("intervention_type" :> "biochar") @@ ("vegetation_type" :> "grassland")
        @@ ("climate_zone" :> "tropical")

\* _train_models: prepare_features on the rows, then the fits in the order
\* scaler, classifier, lasso, ridge, xgboost, lightgbm.  An exception at any
\* point is caught and ends training; run.fits is the number of fits that
\* completed (6: all of them).
_train_models(engine, run, tm_yday) ==
    LET prepared == prepare_features(engine.label_encoders, TrainingRow, tm_yday)
        n == IF prepared.raised THEN 0 ELSE run.fits
    IN  [label_encoders |-> prepared.label_encoders,
         scalers |-> [engine.scalers EXCEPT
             !.features = IF n >= 1 THEN FittedScaler("training_data") ELSE @],
         models |-> [engine.models EXCEPT
             !.site_suitability = IF n >= 2 THEN FittedClassifier ELSE @,
             !.co2_regression.lasso = IF n >= 3 THEN FittedRegressor ELSE @,
             !.co2_regression.ridge = IF n >= 4 THEN FittedRegressor ELSE @,
             !.intervention_ranking.xgboost =
                 IF n >= 5 THEN FittedBooster(run.xgboost) ELSE @,
             !.intervention_ranking.lightgbm =
                 IF n >= 6 THEN FittedBooster(run.lightgbm) ELSE @]]

\* _initialize_training_data
_initialize_training_data(engine, run, tm_yday) ==
    _train_models([engine EXCEPT !.label_encoders = FitEncoders(@)], run, tm_yday)

\* _load_models: every joblib file found in model_dir replaces the object
\* of that name.  files is a dict like the engine, holding what
\* _save_models wrote, or NoFiles.
NoFiles == EmptyDict

_load_models(engine, files) ==
    IF files = NoFiles THEN engine
    ELSE [label_encoders |-> files.label_encoders,
          scalers |-> files.scalers,
          models |-> files.models]

\* __init__ and _initialize_models
Construct(run, files, tm_yday) ==
    _load_models(
        _initialize_training_data(
            [label_encoders |-> FreshEncoders,
             scalers |-> FreshScalers,
             models |-> FreshModels], run, tm_yday),
        files)

\* ---- what training can produce ----
\* Codes the fixed enumeration gives the intervention types: DAC 0,
\* afforestation 1, biochar 2, enhanced_weathering 3, monitoring 4.
BoosterPredictions ==
    {[code \in 0..5 |-> IF code \in favoured THEN 9 ELSE 6] :
        favoured \in {{}, {0}}}

AnyPrediction == CHOOSE predict \in BoosterPredictions : TRUE

TrainingRuns ==
    {[fits |-> n, xgboost |-> AnyPrediction, lightgbm |-> AnyPrediction] :
        n \in 0..4}
    \cup {[fits |-> 5, xgboost |-> x, lightgbm |-> AnyPrediction] :
        x \in BoosterPredictions}
    \cup {[fits |-> 6, xgboost |-> x, lightgbm |-> l] :
        x \in BoosterPredictions, l \in BoosterPredictions}

\* model_dir is a directory on disk: it is empty, or it holds the joblib
\* files of an engine in which every fit completed.
SavedFiles ==
    {NoFiles} \cup
    {Construct(run, NoFiles, StartDay) : run \in {r \in TrainingRuns : r.fits = 6}}
\* ---- observations handed to the engine ----
\* float('inf') as the pressure reading: the one non-finite value the
\* observations of the model carry.
Infinity == "inf"

HasInfinity(climate_data) ==
    "pressure" \in DOMAIN climate_data /\ climate_data["pressure"] = Infinity

EngineObservations ==
    {i @@ v :
        i \in Optional("intervention_type", {"biochar", "ocean_seeding"}),
        v \in Optional("vegetation_type", {"grassland"})}
    \cup {("vegetation_type" :> "grassland") @@ ("biomass_density" :> 40),
          ("vegetation_type" :> "grassland") @@ ("biomass_density" :> 600),
          ("vegetation_type" :> "grassland") @@ ("pressure" :> Infinity),
          ("intervention_type" :> "biochar") @@ ("vegetation_type" :> "grassland")
              @@ ("climate_zone" :> "alpine"),
          ("intervention_type" :> "biochar") @@ ("vegetation_type" :> "grassland")
              @@ ("temperature_anomaly" :> 0),
          ("intervention_type" :> "biochar") @@ ("vegetation_type" :> "grassland")
              @@ ("temperature_anomaly" :> 20)}

MaxRecorded == 1   \* prediction times the model lets the engine record

\* ---- the passage of time ----
Tick ==
    /\ now < StartDay + MaxTicks
    /\ now' = now + 1
    /\ UNCHANGED <<selectCall, ruleCall, serviceVars, label_encoders, scalers, models,
                   prediction_times, engineCall>>

\* ---- a direct call of prepare_features ----
PrepareFeatures ==
    \E climate_data \in EngineObservations :
        LET prepared == prepare_features(label_encoders, climate_data, now)
        IN  /\ label_encoders' = prepared.label_encoders
            /\ engineCall' = [op |-> "prepare_features",
                              climate_data |-> climate_data,
                              table |-> prepared.label_encoders,
                              raised |-> prepared.raised,
                              features |-> IF prepared.raised THEN <<>>
                                           ELSE prepared.features]
            /\ UNCHANGED <<selectCall, ruleCall, serviceVars, scalers, models,
                           prediction_times, now>>

\* ---- assess_site_suitability ----
\* predict of the forest raises NotFittedError when it was never fit and
\* ValueError on a non-finite input; the except clause turns every raise
\* into a failure result.  The class a fitted forest votes for is any of
\* its classes; the confidence is its vote share.
AssessSiteSuitability ==
    \E climate_data \in EngineObservations :
        LET prepared == prepare_features(label_encoders, climate_data, now)
            error == IF prepared.raised THEN "y contains previously unseen labels"
                     ELSE IF "classes_" \notin DOMAIN models.site_suitability
                     THEN "This RandomForestClassifier instance is not fitted yet"
                     ELSE IF HasInfinity(climate_data)
                     THEN "Input X contains infinity"
                     ELSE "none"
        IN  /\ label_encoders' = prepared.label_encoders
            /\ IF error # "none"
               THEN /\ engineCall' = [op |-> "assess_site_suitability",
                                      climate_data |-> climate_data,
                                      result |-> [success |-> FALSE,
                                                  error |-> error]]
                    /\ UNCHANGED prediction_times
               ELSE /\ prediction_times < MaxRecorded
                    /\ prediction_times' = prediction_times + 1
                    /\ \E suitability_pred \in Tiers :
                          engineCall' =
                              [op |-> "assess_site_suitability",
                               climate_data |-> climate_data,
                               result |-> [success |-> TRUE,
                                           suitability_class |-> suitability_pred,
                                           confidence |-> "vote_share"]]
            /\ UNCHANGED <<selectCall, ruleCall, serviceVars, scalers, models, now>>
\* ---- predict_intervention_outcomes ----
\* co2_reduction_ppm in tenths of a ppm, intervention_score in 1/10000.
Co2Estimates == {120, 600}   \* what the fitted lasso/ridge pair may average to

\* _predict_co2_reduction: the scaler is fit on a random sample when it has
\* no mean_; transform raises on a non-finite input and predict on an
\* unfitted ridge; every raise ends in the fallback 25.0.
_predict_co2_reduction(climate_data, estimate) ==
    [scalers |-> IF "mean_" \in DOMAIN scalers.features THEN scalers
                 ELSE [scalers EXCEPT !.features = FittedScaler("random_sample")],
     value |-> IF HasInfinity(climate_data) THEN 250
               ELSE IF "coef_" \in DOMAIN models.co2_regression.lasso
               THEN (IF "coef_" \in DOMAIN models.co2_regression.ridge
                     THEN estimate ELSE 250)
               ELSE 500]

\* _predict_temperature_change, in tenths of a degree
_predict_temperature_change == -5

suitability_scores(tier) ==
    CASE tier = "low" -> 2000 [] tier = "medium" -> 6000 [] tier = "high" -> 9000
      [] OTHER -> 5000

\* _calculate_intervention_score: 0.4 suitability + 0.35 min(1, co2/50)
\* + 0.25 min(1, |temperature_change|/2), clipped to [0, 1]; 0.5 when the
\* scaler or the classifier raises.
_calculate_intervention_score(climate_data, co2_reduction, temperature_change, suitability_pred) ==
    IF HasInfinity(climate_data) \/ "classes_" \notin DOMAIN models.site_suitability
    THEN 5000
    ELSE Min(10000, Max(0,
            (4 * suitability_scores(suitability_pred)) \div 10
            + Min(3500, 7 * co2_reduction)
            + Min(2500, 125 * Abs(temperature_change))))

PredictInterventionOutcomes ==
    \E climate_data \in EngineObservations :
        LET prepared == prepare_features(label_encoders, climate_data, now)
        IN  /\ label_encoders' = prepared.label_encoders
            /\ IF prepared.raised
               THEN /\ engineCall' = [op |-> "predict_intervention_outcomes",
                                      climate_data |-> climate_data,
                                      result |-> [success |-> FALSE,
                                                  error |-> "y contains previously unseen labels"]]
                    /\ UNCHANGED <<scalers, prediction_times>>
               ELSE /\ prediction_times < MaxRecorded
                    /\ prediction_times' = prediction_times + 1
                    /\ \E estimate \in Co2Estimates, suitability_pred \in Tiers :
                          LET co2 == _predict_co2_reduction(climate_data, estimate)
                          IN  /\ scalers' = co2.scalers
                              /\ engineCall' =
                                    [op |-> "predict_intervention_outcomes",
                                     climate_data |-> climate_data,
                                     result |->
                                       [success |-> TRUE,
                                        predictions |->
                                          [co2_reduction_ppm |-> co2.value,
                                           temperature_change_celsius |->
                                               _predict_temperature_change,
                                           intervention_score |->
                                               _calculate_intervention_score(
                                                   climate_data, co2.value,
                                                   _predict_temperature_change,
                                                   suitability_pred)],
                                        performance |-> [model_confidence |-> 95]]]
            /\ UNCHANGED <<selectCall, ruleCall, serviceVars, models, now>>
\* ---- rank_interventions ----
\* impact_score in twentieths (the mean of two predictions in tenths),
\* recommended amount in twelfths of a unit.

BoosterNames == {"xgboost", "lightgbm"}

TrainedBoosters ==
    {name \in BoosterNames :
        "feature_importances_" \in DOMAIN models.intervention_ranking[name]}

RECURSIVE SumPredictions(_, _)
SumPredictions(names, code) ==
    IF names = {} THEN 0
    ELSE LET name == CHOOSE n \in names : TRUE
         IN  models.intervention_ranking[name].predict[code]
                 + SumPredictions(names \ {name}, code)

\* Rule-based scoring, used when no boosting model is trained.
base_score(intervention_type, climate_data) ==
    IF intervention_type = "biochar"
           /\ Get(climate_data, "biomass_density", 0) > 30 THEN 16
    ELSE IF intervention_type = "DAC"
           /\ Get(climate_data, "co2_concentration", 415) > 420 THEN 18
    ELSE IF intervention_type = "afforestation"
           /\ Get(climate_data, "biomass_density", 0) > 20 THEN 14
    ELSE 10

\* impact_score of one candidate: the mean prediction of the trained
\* boosters on the candidate's features, or the rule-based score.
impact_score(intervention_type, climate_data, code) ==
    IF TrainedBoosters = {} THEN base_score(intervention_type, climate_data)
    ELSE (2 * SumPredictions(TrainedBoosters, code))
             \div Cardinality(TrainedBoosters)

\* A priority function whose thresholds are inclusive.
_get_priority_inclusive(score) ==
    IF score >= 16 THEN "high" ELSE IF score >= 12 THEN "medium" ELSE "low"

\* ClimateMLEngine._get_priority
_get_priority(score) ==
    IF score > 16 THEN "high" ELSE IF score > 12 THEN "medium" ELSE "low"

\* The local 'scale' of _calculate_recommended_scale: base_scale times
\* the resource factor of the type.
scale(intervention_type, climate_data) ==
    CASE intervention_type = "biochar" ->
             24 * Get(climate_data, "biomass_density", 0)
      [] intervention_type = "DAC" ->
             3 * Get(climate_data, "co2_concentration", 415)
      [] intervention_type = "afforestation" ->
             40 * Get(climate_data, "biomass_density", 0)
      [] OTHER -> 1200

\* A recommended scale whose amount is the scale as computed.
_calculate_recommended_scale_unclamped(intervention_type, climate_data) ==
    [amount |-> scale(intervention_type, climate_data),
     unit |-> IF intervention_type \in {"biochar", "DAC"}
              THEN "tonnes_co2" ELSE "hectares"]

\* ClimateMLEngine._calculate_recommended_scale: 'amount' and 'unit'
_calculate_recommended_scale(intervention_type, climate_data) ==
    [amount |-> Max(120, Min(12000, scale(intervention_type, climate_data))),
     unit |-> IF intervention_type \in {"biochar", "DAC"}
              THEN "tonnes_co2" ELSE "hectares"]

\* The loop over the candidate types: each round encodes the observation
\* with the candidate as its intervention_type and appends one entry; a
\* raise of prepare_features ends the loop.
RECURSIVE RankLoop(_, _, _, _)
RankLoop(types, climate_data, encoders, rankings) ==
    IF types = <<>>
    THEN [raised |-> FALSE, rankings |-> rankings, label_encoders |-> encoders]
    ELSE LET intervention_type == Head(types)
             intervention_data ==
                 ("intervention_type" :> intervention_type) @@ climate_data
             prepared == prepare_features(encoders, intervention_data, now)
             score == impact_score(intervention_type, climate_data,
                                   prepared.features[Len(prepared.features) - 2])
         IN  IF prepared.raised
             THEN [raised |-> TRUE, rankings |-> rankings,
                   label_encoders |-> prepared.label_encoders]
             ELSE RankLoop(Tail(types), climate_data, prepared.label_encoders,
                     Append(rankings,
                         [intervention_type |-> intervention_type,
                          impact_score |-> score,
                          cost_efficiency |->
                              [num |-> 100 * score,
                               den |-> Max(10, Get(climate_data, "cost_per_tonne", 100))],
                          recommended_scale |->
                              _calculate_recommended_scale(intervention_type,
                                                           climate_data),
                          deployment_priority |-> _get_priority(score)]))

\* An insert that orders by ascending impact_score.
InsertByImpactAscending(sorted, x) ==
    LET below == SelectSeq(sorted, LAMBDA e : e.impact_score <= x.impact_score)
        above == SelectSeq(sorted, LAMBDA e : e.impact_score > x.impact_score)
    IN  below \o <<x>> \o above

\* rankings.sort(key=impact_score, reverse=True): stable, so entries of
\* equal impact_score keep the order of the candidate list.
RECURSIVE InsertByImpact(_, _)
InsertByImpact(sorted, x) ==
    IF sorted = <<>> THEN <<x>>
    ELSE IF x.impact_score > Head(sorted).impact_score THEN <<x>> \o sorted
    ELSE <<Head(sorted)>> \o InsertByImpact(Tail(sorted), x)

RECURSIVE SortByImpact(_)
SortByImpact(rankings) ==
    IF rankings = <<>> THEN <<>>
    ELSE InsertByImpact(SortByImpact(SubSeq(rankings, 1, Len(rankings) - 1)),
                        rankings[Len(rankings)])

DefaultTypes == <<"biochar", "DAC", "afforestation", "enhanced_weathering">>

\* rank_interventions(climate_data, intervention_types).  model_count is
\* bound in the loop body only, so with no candidate the expression for
\* model_confidence raises NameError, which the except clause reports.
rank_interventions(climate_data, types) ==
    LET loop == RankLoop(types, climate_data, label_encoders, <<>>)
        sorted == SortByImpact(loop.rankings)
    IN  [label_encoders |-> loop.label_encoders,
         result |->
            IF loop.raised
            THEN [success |-> FALSE, rankings |-> <<>>,
                  error |-> "y contains previously unseen labels"]
            ELSE IF types = <<>>
            THEN [success |-> FALSE, rankings |-> <<>>,
                  error |-> "local variable 'model_count' referenced before assignment"]
            ELSE [success |-> TRUE,
                  rankings |-> sorted,
                  top_recommendation |-> sorted[1],
                  model_confidence |-> IF TrainedBoosters # {} THEN 8 ELSE 6]]

\* ---- arguments of rank_interventions ----
MaxTypes == 2

CandidateTypes == {"biochar", "DAC", "ocean_seeding"}

\* Candidate lists without repetition, and the call without a list.
TypeLists ==
    {types \in UNION {[1..n -> CandidateTypes] : n \in 0..MaxTypes} :
        \A i, j \in 1..Len(types) : i # j => types[i] # types[j]}

\* rank_interventions overwrites intervention_type in a copy of the
\* observation and never reads the caller's value, so the observations
\* ranked carry none.  A booster handed a non-finite feature behaves as its
\* library decides; the observations ranked are finite.
RankObservations ==
    {cd \in EngineObservations :
        ~HasInfinity(cd) /\ "intervention_type" \notin DOMAIN cd}

RankInterventions ==
    \E climate_data \in RankObservations,
       given \in TypeLists \cup {DefaultTypes} :
        LET call == rank_interventions(climate_data, given)
        IN  /\ label_encoders' = call.label_encoders
            /\ engineCall' = [op |-> "rank_interventions",
                              climate_data |-> climate_data,
                              intervention_types |-> given,
                              result |-> call.result]
            /\ UNCHANGED <<selectCall, ruleCall, serviceVars, scalers, models,
                           prediction_times, now>>

\* ---- the engine in use ----
InitEngine ==
    /\ selectCall = NoCall
    /\ ruleCall = NoCall
    /\ now = StartDay
    /\ prediction_times = 0
    /\ engineCall = NoCall
    /\ ServicesIdle
    /\ \E run \in TrainingRuns, files \in SavedFiles :
          LET engine == Construct(run, files, StartDay)
          IN  /\ label_encoders = engine.label_encoders
              /\ scalers = engine.scalers
              /\ models = engine.models

NextEngine ==
    \/ Tick
    \/ PrepareFeatures
    \/ AssessSiteSuitability
    \/ PredictInterventionOutcomes
    \/ RankInterventions

SpecEngine == InitEngine /\ [][NextEngine]_vars
(***************************************************************************)
(* train_models                                                            *)
(***************************************************************************)

\* The loop of train_models over the data points: prepare_features on
\* each, ended by the first raise.
RECURSIVE PrepareRows(_, _, _)
PrepareRows(encoders, training_data, tm_yday) ==
    IF training_data = <<>>
    THEN [raised |-> FALSE, label_encoders |-> encoders]
    ELSE LET prepared == prepare_features(encoders, Head(training_data), tm_yday)
         IN  IF prepared.raised
             THEN [raised |-> TRUE, label_encoders |-> prepared.label_encoders]
             ELSE PrepareRows(prepared.label_encoders, Tail(training_data), tm_yday)

\* Rows of the training split: train_test_split(test_size=0.2) keeps
\* n - ceil(n / 5) of n rows and raises when that leaves none.
train_rows(n) == n - ((n + 4) \div 5)

\* ClimateMLEngine.train_models on finite rows.  Nothing is done for empty
\* data.  Otherwise the steps run in the order: prepare_features on every
\* row, the split, scaler.fit_transform on the training split, lasso.fit,
\* ridge.fit, then the classifier's fit on the training split against the
\* labels of all rows.  That fit raises whenever the two lengths differ;
\* the except clause ends the call, the boosting models are not reached
\* and nothing is saved.
train_models(engine, training_data, tm_yday) ==
    IF training_data = <<>> THEN engine
    ELSE LET prepared == PrepareRows(engine.label_encoders, training_data, tm_yday)
             X_train == train_rows(Len(training_data))
             classifier_fits == X_train = Len(training_data)
         IN  IF prepared.raised \/ X_train < 1
             THEN [engine EXCEPT !.label_encoders = prepared.label_encoders]
             ELSE [label_encoders |-> prepared.label_encoders,
                   scalers |-> [engine.scalers EXCEPT
                       !.features = FittedScaler("historical_data")],
                   models |-> [engine.models EXCEPT
                       !.co2_regression.lasso = [coef_ |-> "historical_data"],
                       !.co2_regression.ridge = [coef_ |-> "historical_data"],
                       !.site_suitability =
                           IF classifier_fits
                           THEN [classes_ |-> <<"high", "low", "medium">>,
                                 estimators_ |-> "historical_data"]
                           ELSE @,
                       !.intervention_ranking.xgboost =
                           IF classifier_fits
                           THEN [feature_importances_ |-> "historical_data",
                                 predict |-> AnyPrediction]
                           ELSE @,
                       !.intervention_ranking.lightgbm =
                           IF classifier_fits
                           THEN [feature_importances_ |-> "historical_data",
                                 predict |-> AnyPrediction]
                           ELSE @]]

\* ---- training data handed to train_models ----
MaxRows == 2

HistoricalRows ==
    {TrainingRow, ("intervention_type" :> "ocean_seeding") @@ TrainingRow}

HistoricalData == UNION {[1..n -> HistoricalRows] : n \in 0..MaxRows}

TrainModels ==
    \E training_data \in HistoricalData :
        LET engine == train_models([label_encoders |-> label_encoders,
                                    scalers |-> scalers,
                                    models |-> models], training_data, now)
        IN  /\ label_encoders' = engine.label_encoders
            /\ scalers' = engine.scalers
            /\ models' = engine.models
            /\ engineCall' = [op |-> "train_models",
                              training_data |-> training_data]
            /\ UNCHANGED <<selectCall, ruleCall, serviceVars, prediction_times, now>>

\* ---- an engine that is trained and then asked for predictions ----
NextTrain ==
    \/ TrainModels
    \/ PredictInterventionOutcomes

SpecTrain == InitEngine /\ [][NextTrain]_vars

(***************************************************************************)
(* Properties of the engine                                                *)
(***************************************************************************)

\* The value prepare_features encodes for a categorical key lies outside
\* the classes of the (fitted) encoder of that key.
OutsideEnumeration(climate_data) ==
    \E name \in DOMAIN label_encoders :
        /\ "classes_" \in DOMAIN label_encoders[name]
        /\ ~InClasses(label_encoders[name],
                      Get(climate_data, name, CategoryDefault(name)))

\* C3: when the suitability classifier was never fit, or its prediction
\* throws, assess_site_suitability still succeeds: it returns the rule-based
\* tier with an explicit fallback_used flag, never a failure result.
ModelFailureDegrades ==
    (/\ engineCall.op = "assess_site_suitability"
     /\ ~OutsideEnumeration(engineCall.climate_data)
     /\ \/ "classes_" \notin DOMAIN models.site_suitability
        \/ HasInfinity(engineCall.climate_data))
    => /\ engineCall.result.success
       /\ engineCall.result.suitability_class
              = _rule_based_suitability(engineCall.climate_data)
       /\ "fallback_used" \in DOMAIN engineCall.result
       /\ engineCall.result.fallback_used

\* C5: two consecutive prepare_features calls on the same observation with
\* the same encoding table return the same feature vector, whatever time
\* passes between them.
EncodeDeterministic ==
    [][(/\ engineCall.op = "prepare_features"
        /\ engineCall'.op = "prepare_features"
        /\ engineCall'.climate_data = engineCall.climate_data
        /\ engineCall'.table = engineCall.table
        /\ ~engineCall.raised
        /\ ~engineCall'.raised)
       => engineCall'.features = engineCall.features]_vars

\* Construction ran without an exception: every encoder, the feature
\* scaler and every model are fit.
InitialisedNormally ==
    /\ \A name \in DOMAIN label_encoders : "classes_" \in DOMAIN label_encoders[name]
    /\ "mean_" \in DOMAIN scalers.features
    /\ "classes_" \in DOMAIN models.site_suitability
    /\ "coef_" \in DOMAIN models.co2_regression.lasso
    /\ "coef_" \in DOMAIN models.co2_regression.ridge
    /\ TrainedBoosters = BoosterNames

\* C6: on a normally initialised engine, encoding the observation with no
\* field present succeeds, and so do assessing and predicting on it.
AllMissingIsLegal ==
    (/\ InitialisedNormally
     /\ engineCall.op \in {"prepare_features", "assess_site_suitability",
                            "predict_intervention_outcomes"}
     /\ DOMAIN engineCall.climate_data = {})
    => IF engineCall.op = "prepare_features"
       THEN ~engineCall.raised
       ELSE engineCall.result.success

\* C7: an observation whose intervention_type, vegetation_type or
\* climate_zone lies outside the fitted enumeration ends in an error: no
\* feature vector is produced for it and no model result is returned.
UnknownCategoryFailsFast ==
    /\ (engineCall.op = "prepare_features"
            /\ OutsideEnumeration(engineCall.climate_data))
        => engineCall.raised /\ engineCall.features = <<>>
    /\ (engineCall.op \in {"assess_site_suitability",
                            "predict_intervention_outcomes"}
            /\ OutsideEnumeration(engineCall.climate_data))
        => ~engineCall.result.success
    /\ (engineCall.op = "rank_interventions"
            /\ \E i \in 1..Len(engineCall.intervention_types) :
                  OutsideEnumeration(
                      ("intervention_type" :> engineCall.intervention_types[i])
                          @@ engineCall.climate_data))
        => ~engineCall.result.success /\ engineCall.result.rankings = <<>>

\* An explicit intervention_type outside the enumeration was refused.
UnknownCategoryWitness ==
    /\ engineCall.op = "prepare_features"
    /\ "intervention_type" \in DOMAIN engineCall.climate_data
    /\ engineCall.climate_data["intervention_type"] = "ocean_seeding"
    /\ engineCall.raised

\* C8: after construction the three encoders hold the fixed enumerations,
\* and no encode, assess, rank or predict call changes them.
EncodingTableFixed ==
    \A name \in DOMAIN FreshEncoders :
        /\ name \in DOMAIN label_encoders
        /\ label_encoders[name] =
               [classes_ |-> SelectSeq(StringOrder,
                                       LAMBDA str : str \in FixedEnumeration(name))]

\* A ranking was made after a recorded prediction and a change of date;
\* the table is as constructed.
EncodingTableWitness ==
    /\ engineCall.op = "rank_interventions"
    /\ engineCall.result.success
    /\ prediction_times >= 1
    /\ now > StartDay
    /\ EncodingTableFixed

\* C9: in every successful ranking each entry has an impact_score greater
\* than or equal to that of the entry after it.
RankingDescending ==
    (engineCall.op = "rank_interventions" /\ engineCall.result.success)
    => \A i \in 1..(Len(engineCall.result.rankings) - 1) :
          engineCall.result.rankings[i].impact_score
              >= engineCall.result.rankings[i + 1].impact_score

\* A successful ranking whose best entry was not listed first by the
\* caller.
RankingWitness ==
    /\ engineCall.op = "rank_interventions"
    /\ engineCall.result.success
    /\ Len(engineCall.result.rankings) >= 2
    /\ engineCall.result.rankings[1].intervention_type
           # engineCall.intervention_types[1]
    /\ engineCall.result.rankings[1].impact_score
           > engineCall.result.rankings[2].impact_score

\* C10: entries of equal impact_score appear in ascending order of
\* intervention-type name, whatever order the caller listed them in.
TiesAscendingByName ==
    (engineCall.op = "rank_interventions" /\ engineCall.result.success)
    => \A i \in 1..(Len(engineCall.result.rankings) - 1) :
          engineCall.result.rankings[i].impact_score
              = engineCall.result.rankings[i + 1].impact_score
          => StrLess(engineCall.result.rankings[i].intervention_type,
                     engineCall.result.rankings[i + 1].intervention_type)

\* C21: every call of assess_site_suitability, rank_interventions and
\* predict_intervention_outcomes leaves the encoders, the scalers, the
\* models and the recorded prediction times of the engine as they were
\* before the call.
InferenceLeavesEngineUnchanged ==
    [][engineCall'.op \in {"assess_site_suitability", "rank_interventions",
                           "predict_intervention_outcomes"}
       => /\ label_encoders' = label_encoders
          /\ scalers' = scalers
          /\ models' = models
          /\ prediction_times' = prediction_times]_vars

\* C22: the temperature_change_celsius of a successful
\* predict_intervention_outcomes is -temperature_anomaly times a cooling
\* coefficient between 0.3 and 0.4: 0 for an anomaly of 0, and between
\* 0.3 and 0.4 degrees of cooling per degree of anomaly otherwise.
\* (Both quantities in tenths of a degree.)
TemperatureChangeProportional ==
    (/\ engineCall.op = "predict_intervention_outcomes"
     /\ engineCall.result.success
     /\ "temperature_anomaly" \in DOMAIN engineCall.climate_data)
    => LET temperature_anomaly == engineCall.climate_data["temperature_anomaly"]
           cooling == -engineCall.result.predictions.temperature_change_celsius
       IN  /\ 10 * cooling >= 3 * temperature_anomaly
           /\ 10 * cooling <= 4 * temperature_anomaly

\* C23: in every successful ranking the deployment_priority of an entry is
\* high exactly when its impact_score is above 0.8, medium exactly when it
\* is above 0.6 and at most 0.8, and low exactly when it is at most 0.6.
\* (impact_score in twentieths.)
PriorityByThreshold ==
    (engineCall.op = "rank_interventions" /\ engineCall.result.success)
    => \A i \in 1..Len(engineCall.result.rankings) :
          LET entry == engineCall.result.rankings[i]
          IN  /\ entry.deployment_priority = "high" <=> entry.impact_score > 16
              /\ entry.deployment_priority = "medium"
                     <=> (entry.impact_score > 12 /\ entry.impact_score <= 16)
              /\ entry.deployment_priority = "low" <=> entry.impact_score <= 12

\* A ranking that holds an entry of impact_score exactly 0.8, ranked
\* medium, above an entry ranked low.
PriorityWitness ==
    /\ engineCall.op = "rank_interventions"
    /\ engineCall.result.success
    /\ Len(engineCall.result.rankings) = 2
    /\ engineCall.result.rankings[1].impact_score = 16
    /\ engineCall.result.rankings[1].deployment_priority = "medium"
    /\ engineCall.result.rankings[2].deployment_priority = "low"

\* C24: the recommended scale amount of every entry of every successful
\* ranking lies between 10 and 1000, whatever the type and the
\* observation.  (Amounts in twelfths of a unit.)
RecommendedScaleClamped ==
    (engineCall.op = "rank_interventions" /\ engineCall.result.success)
    => \A i \in 1..Len(engineCall.result.rankings) :
          /\ engineCall.result.rankings[i].recommended_scale.amount >= 120
          /\ engineCall.result.rankings[i].recommended_scale.amount <= 12000

\* A ranking with an entry whose scale as computed exceeds 1000 and whose
\* amount is 1000.
RecommendedScaleWitness ==
    /\ engineCall.op = "rank_interventions"
    /\ engineCall.result.success
    /\ \E i \in 1..Len(engineCall.result.rankings) :
          /\ scale(engineCall.result.rankings[i].intervention_type,
                   engineCall.climate_data) > 12000
          /\ engineCall.result.rankings[i].recommended_scale.amount = 12000

\* C29: rank_interventions called with an explicitly empty list of
\* intervention types succeeds, with an empty rankings list and a
\* top_recommendation of None.
EmptyListRanksNothing ==
    (engineCall.op = "rank_interventions"
         /\ engineCall.intervention_types = <<>>)
    => /\ engineCall.result.success
       /\ engineCall.result.rankings = <<>>
       /\ "top_recommendation" \in DOMAIN engineCall.result
       /\ engineCall.result.top_recommendation = "None"

\* The object carries the attribute and the attribute came from a fit on
\* the given data.
FitOn(object, attribute, data) ==
    attribute \in DOMAIN object /\ object[attribute] = data

\* C27: a call of train_models leaves either the feature scaler, both CO2
\* regressors, the suitability classifier and both ranking models all
\* refit on the data handed in, or all of them exactly as they were
\* before the call.
TrainingAllOrNothing ==
    [][engineCall'.op = "train_models"
       => \/ scalers' = scalers /\ models' = models
          \/ /\ FitOn(scalers'.features, "mean_", "historical_data")
             /\ FitOn(models'.co2_regression.lasso, "coef_", "historical_data")
             /\ FitOn(models'.co2_regression.ridge, "coef_", "historical_data")
             /\ FitOn(models'.site_suitability, "estimators_", "historical_data")
             /\ \A name \in BoosterNames :
                   FitOn(models'.intervention_ranking[name],
                         "feature_importances_", "historical_data")]_vars

(***************************************************************************)
(* ClimateSimulationService                                                *)
(*                                                                         *)
(* The service is the one built when the earth2studio package is not       *)
(* installed (the repository does not declare it): model and data_source   *)
(* are None and simulate_climate_impact runs _simulation_mode.             *)
(*                                                                         *)
(* scale_amount is a whole number of tonnes.  CO2 quantities are held in   *)
(* hundredths of a ppm and temperatures in ten-thousandths of a degree,    *)
(* each product rounded down; factors of the effectiveness table and the   *)
(* seasonal factor are percentages, the regional multiplier and the        *)
(* cumulative factor are thousandths, the noise is in tenths.              *)
(***************************************************************************)

\* effectiveness_factors, factors in percent
effectiveness_factors ==
    [biochar |->
        ("co2_reduction_factor" :> 80) @@ ("temp_cooling_factor" :> 30)
            @@ ("biomass_requirement" :> 30),
     DAC |->
        ("co2_reduction_factor" :> 95) @@ ("temp_cooling_factor" :> 40)
            @@ ("energy_requirement" :> 1000),
     afforestation |->
        ("co2_reduction_factor" :> 60) @@ ("temp_cooling_factor" :> 20)
            @@ ("land_requirement" :> 1),
     enhanced_weathering |->
        ("co2_reduction_factor" :> 70) @@ ("temp_cooling_factor" :> 25)
            @@ ("mineral_requirement" :> 2)]

\* urban_centers: NYC, LA, London, Tokyo, Beijing
urban_centers ==
    <<<<407, -740>>, <<340, -1180>>, <<515, -1>>, <<357, 1397>>, <<399, 1164>>>>

\* ClimateSimulationService._calculate_regional_multiplier, in thousandths:
\* latitude band x longitude band x 1.3 within 5 degrees of an urban centre.
_calculate_regional_multiplier(latitude, longitude) ==
    LET by_latitude == IF Abs(latitude) < 100 THEN 12
                       ELSE IF Abs(latitude) < 300 THEN 11
                       ELSE IF Abs(latitude) > 600 THEN 8
                       ELSE 10
        by_longitude == IF Abs(longitude) < 600 THEN 10
                        ELSE IF Abs(longitude) < 1200 THEN 11
                        ELSE 9
        near_centre == \E i \in 1..Len(urban_centers) :
                          (latitude - urban_centers[i][1]) * (latitude - urban_centers[i][1])
                            + (longitude - urban_centers[i][2]) * (longitude - urban_centers[i][2])
                              < 50 * 50
    IN  by_latitude * by_longitude * (IF near_centre THEN 13 ELSE 10)

\* 100 * sin(2 * pi * month / 12), rounded
sin_twelfths == <<0, 50, 87, 100, 87, 50, 0, -50, -87, -100, -87, -50>>

\* seasonal_factor = 1 + 0.2 * sin(2 * pi * month / 12), in percent
seasonal_factor(month) == 100 + (20 * sin_twelfths[(month % 12) + 1]) \div 100

\* exp(-month / 6) in thousandths; exp(-1/6) = 0.846
RECURSIVE exp_decay(_)
exp_decay(month) ==
    IF month <= 0 THEN 1000 ELSE (exp_decay(month - 1) * 846) \div 1000

\* cumulative_factor = 1 - exp(-month / 6), in thousandths
cumulative_factor(month) == 1000 - exp_decay(month)

\* x * seasonal_factor * cumulative_factor, evaluated left to right
Seasonal(x, month) ==
    (((x * seasonal_factor(month)) \div 100) * cumulative_factor(month)) \div 1000

\* x * cumulative_factor
Cumulative(x, month) == (x * cumulative_factor(month)) \div 1000

\* x *= (1 + uncertainty)
Perturbed(x, uncertainty) == (x * (10 + uncertainty)) \div 10

\* A simulator whose confidence keeps falling below 0.7.
confidence_unfloored(month) == 100 - month * 2

\* 'confidence': max(0.7, 1 - month * 0.02), in percent
confidence(month) == Max(70, 100 - month * 2)

\* A simulator that reports the raw cooling term as the temperature change.
temperature_change_unsigned(monthly_temp_cooling) == 0 - monthly_temp_cooling

\* 'temperature_change_celsius': -abs(monthly_temp_cooling)
temperature_change_celsius(monthly_temp_cooling) == 0 - Abs(monthly_temp_cooling)

\* A simulator that numbers the records with the loop variable itself.
month_index_from_zero(month) == month

\* 'month': month + 1
month_index(month) == month + 1

RECURSIVE SumOf(_, _)
SumOf(records, field) ==
    IF records = <<>> THEN 0
    ELSE Head(records)[field] + SumOf(Tail(records), field)

\* max(abs(r['temperature_change_celsius']) for r in monthly_results), for a
\* list that is not empty
MaxCooling(records) ==
    CHOOSE c \in {Abs(records[i].temperature_change_celsius) : i \in 1..Len(records)} :
        \A i \in 1..Len(records) : Abs(records[i].temperature_change_celsius) <= c

\* One pass of the loop of _simulation_mode; uncertainty is the value drawn
\* by np.random.normal(0, 0.1) in this pass.
monthly_result(co2_reduction, temp_cooling, month, uncertainty) ==
    [month |-> month_index(month),
     co2_reduction_ppm |->
        Max(0, Perturbed(Seasonal(co2_reduction, month), uncertainty)),
     temperature_change_celsius |->
        temperature_change_celsius(Perturbed(Seasonal(temp_cooling, month), uncertainty)),
     cumulative_co2_reduction |-> Cumulative(co2_reduction, month),
     cumulative_temp_cooling |-> Cumulative(temp_cooling, month),
     confidence |-> confidence(month)]

\* ClimateSimulationService._simulation_mode.  draws[month + 1] is the
\* noise drawn in the pass for month.  The result is the dict returned, or
\* the exception raised: max() of an empty list when duration_months < 1,
\* and total_co2_reduction / (scale_amount * 0.5) when scale_amount is 0.
_simulation_mode(latitude, longitude, intervention_type, scale_amount, duration_months, draws) ==
    LET factors == IF intervention_type \in DOMAIN effectiveness_factors
                   THEN effectiveness_factors[intervention_type]
                   ELSE effectiveness_factors["biochar"]
        regional_multiplier == _calculate_regional_multiplier(latitude, longitude)
        co2_reduction ==
            (scale_amount * factors["co2_reduction_factor"] * regional_multiplier) \div 1000
        temp_cooling ==
            (scale_amount * factors["temp_cooling_factor"] * regional_multiplier) \div 1000
        monthly_results ==
            [i \in 1..duration_months |->
                monthly_result(co2_reduction, temp_cooling, i - 1, draws[i])]
        total_co2_reduction == SumOf(monthly_results, "co2_reduction_ppm")
    IN  IF duration_months < 1 THEN [raised |-> "ValueError"]
        ELSE IF scale_amount = 0 THEN [raised |-> "ZeroDivisionError"]
        ELSE
          [raised |-> "no",
           success |-> TRUE,
           simulation_mode |-> "advanced_simulation",
           intervention_type |-> intervention_type,
           location |-> [lat |-> latitude, lon |-> longitude],
           scale_amount |-> scale_amount,
           duration_months |-> duration_months,
           results |->
             [monthly_progress |-> monthly_results,
              summary |->
                [total_co2_reduction_ppm |-> total_co2_reduction,
                 max_temperature_cooling_celsius |-> MaxCooling(monthly_results),
                 average_monthly_impact |->
                    [co2_reduction_ppm |-> total_co2_reduction \div duration_months,
                     temperature_cooling_celsius |-> MaxCooling(monthly_results)],
                 \* min(1.0, total / (scale_amount * 0.5)), in thousandths
                 effectiveness_score |->
                    Min(1000, (total_co2_reduction * 20) \div scale_amount),
                 \* total / max(1, scale_amount * 0.1), in hundredths
                 cost_efficiency |->
                    (total_co2_reduction * 10) \div Max(10, scale_amount)],
              regional_effects |->
                [local_impact_radius_km |-> 50,
                 downwind_effects_km |-> 200,
                 ocean_influence |-> latitude < 300,
                 urban_heat_island_moderation |-> Abs(latitude) < 450]],
           \* np.mean of the confidences, in percent
           model_confidence |-> SumOf(monthly_results, "confidence") \div duration_months,
           simulation_parameters |->
             [base_temperature |-> 150 - (6 * Abs(latitude)) \div 10,
              base_co2_concentration |-> 415,
              regional_multiplier |-> regional_multiplier,
              effectiveness_factors |-> factors]]

\* ClimateSimulationService.simulate_climate_impact with model and
\* data_source None: _simulation_mode inside try/except.
\* A simulate_climate_impact without the except clause: what
\* _simulation_mode returns or raises reaches the caller.
simulate_climate_impact_uncaught(latitude, longitude, intervention_type, scale_amount, duration_months, draws) ==
    _simulation_mode(latitude, longitude, intervention_type,
                     scale_amount, duration_months, draws)

simulate_climate_impact(latitude, longitude, intervention_type, scale_amount, duration_months, draws) ==
    LET out == _simulation_mode(latitude, longitude, intervention_type,
                                scale_amount, duration_months, draws)
    IN  IF out.raised = "no"
        THEN [k \in DOMAIN out \ {"raised"} |-> out[k]]
        ELSE [success |-> FALSE, error |-> out.raised, simulation_mode |-> "fallback"]

\* ---- inputs of the simulator ----
MaxDuration == 17

\* the equator at Greenwich; New York; the Siberian Arctic coast
Locations == {<<0, 0>>, <<407, -740>>, <<700, 1500>>}
SimTypes == {"biochar", "DAC", "ocean_seeding"}
ScaleAmounts == {-100, 0, 100, 500}
Durations == 0..MaxDuration

\* np.random.normal(0, 0.1) can return any real number: a draw at the mean,
\* one standard deviation above it, and one below -1, in tenths.
NoiseValues == {-15, 0, 1}

\* The draws of one call: the model alternates between two values.
NoiseDraws ==
    {[i \in 1..MaxDuration |-> IF i % 2 = 1 THEN a ELSE b] :
        a \in NoiseValues, b \in NoiseValues}

\* A caller has the arguments of simulate_climate_impact in hand.
SimRequests ==
    {[op |-> "request",
      latitude |-> loc[1],
      longitude |-> loc[2],
      intervention_type |-> t,
      scale_amount |-> amount,
      duration_months |-> d] :
        loc \in Locations, t \in SimTypes, amount \in ScaleAmounts, d \in Durations}

\* simulate_climate_impact is called with the arguments in hand; the noise
\* comes from numpy's process-wide generator, which the call neither seeds
\* nor receives.
SimulateClimateImpact ==
    /\ simCall.op \in {"request", "simulate_climate_impact"}
    /\ \E draws \in NoiseDraws :
          simCall' = [op |-> "simulate_climate_impact",
                      latitude |-> simCall.latitude,
                      longitude |-> simCall.longitude,
                      intervention_type |-> simCall.intervention_type,
                      scale_amount |-> simCall.scale_amount,
                      duration_months |-> simCall.duration_months,
                      result |-> simulate_climate_impact(
                                    simCall.latitude, simCall.longitude,
                                    simCall.intervention_type,
                                    simCall.scale_amount,
                                    simCall.duration_months, draws)]
    /\ UNCHANGED <<selectCall, ruleCall, engineVars, interventions, spatialCall,
                   cacheVars>>

InitSim ==
    /\ selectCall = NoCall
    /\ ruleCall = NoCall
    /\ EngineNotBuilt
    /\ simCall \in SimRequests
    /\ interventions = <<>>
    /\ spatialCall = NoCall
    /\ CacheEmpty

NextSim == SimulateClimateImpact

SpecSim == InitSim /\ [][NextSim]_vars

\* The monthly records of the latest call, when it succeeded.
SimSucceeded ==
    /\ simCall.op = "simulate_climate_impact"
    /\ simCall.result.success

monthly_progress == simCall.result.results.monthly_progress

CoolingSign ==
    SimSucceeded
        => \A i \in 1..Len(monthly_progress) :
              monthly_progress[i].temperature_change_celsius <= 0

\* A simulation with a positive scale in which a noise draw below -1 turned
\* the month's raw terms negative: the CO2 term was clamped to 0 and the
\* temperature change is reported as strictly cooling.
CoolingSignWitness ==
    /\ SimSucceeded
    /\ simCall.scale_amount > 0
    /\ \E i \in 1..Len(monthly_progress) :
          /\ monthly_progress[i].cumulative_co2_reduction > 0
          /\ monthly_progress[i].co2_reduction_ppm = 0
          /\ monthly_progress[i].temperature_change_celsius < 0

\* C13: the confidence of the record for loop month m (m = 0 .. duration-1)
\* equals max(0.7, 1 - 0.02*m), so confidence is non-increasing along the
\* series and never below 0.7.
ConfidenceSchedule ==
    SimSucceeded
        => /\ \A i \in 1..Len(monthly_progress) :
                /\ monthly_progress[i].confidence >= 70
                /\ monthly_progress[i].confidence
                     = (IF 100 - 2 * (i - 1) >= 70 THEN 100 - 2 * (i - 1) ELSE 70)
           /\ \A i \in 1..(Len(monthly_progress) - 1) :
                monthly_progress[i + 1].confidence <= monthly_progress[i].confidence

\* A series long enough for the confidence to fall from 1 to the floor and
\* stay there.
ConfidenceWitness ==
    /\ SimSucceeded
    /\ Len(monthly_progress) >= 17
    /\ monthly_progress[1].confidence = 100
    /\ monthly_progress[16].confidence = 70
    /\ monthly_progress[17].confidence = 70

\* C14: the cumulative_co2_reduction field of consecutive monthly records
\* never decreases from one month to the next, for every scale_amount and
\* location accepted by the simulator.
CumulativeNonDecreasing ==
    SimSucceeded
        => \A i \in 1..(Len(monthly_progress) - 1) :
              monthly_progress[i + 1].cumulative_co2_reduction
                  >= monthly_progress[i].cumulative_co2_reduction

\* C15: simulate_climate_impact called with an intervention_type that is
\* not in the effectiveness table returns a successful result computed with
\* the biochar effectiveness constants, and that result is tagged
\* fallback_used = true.
UnknownTypeFallsBack ==
    (/\ simCall.op = "simulate_climate_impact"
     /\ simCall.intervention_type \notin DOMAIN effectiveness_factors
     /\ simCall.duration_months >= 1
     /\ simCall.scale_amount > 0)
        => /\ simCall.result.success
           /\ simCall.result.simulation_parameters.effectiveness_factors
                = effectiveness_factors["biochar"]
           /\ "fallback_used" \in DOMAIN simCall.result
           /\ simCall.result["fallback_used"] = TRUE

\* C16: two simulate_climate_impact calls with identical arguments and the
\* same seed return identical monthly records and summary.  The method has
\* no seed parameter, so the calls compared are any two calls in a row with
\* the same arguments.
ReproducibleSimulation ==
    [][(simCall.op = "simulate_climate_impact"
          /\ simCall'.op = "simulate_climate_impact")
        => simCall'.result = simCall.result]_vars

\* C30: simulate_climate_impact hands every caller a result record and
\* never an exception: for a duration of 0 months or a scale of 0 (where
\* the summary statistics cannot be computed) and for any other failure
\* the record says success = false and carries the error message;
\* otherwise it says success = true.
SimulatorNeverRaises ==
    simCall.op = "simulate_climate_impact"
    => /\ "raised" \notin DOMAIN simCall.result
       /\ "success" \in DOMAIN simCall.result
       /\ simCall.result.success
             <=> (simCall.duration_months >= 1 /\ simCall.scale_amount # 0)
       /\ ~simCall.result.success
             => /\ "error" \in DOMAIN simCall.result
                /\ simCall.result.error \in {"ValueError", "ZeroDivisionError"}

\* A call for 0 months returned the failure record of the ValueError that
\* max() raised on the empty series.
SimulatorNeverRaisesWitness ==
    /\ simCall.op = "simulate_climate_impact"
    /\ simCall.duration_months = 0
    /\ simCall.scale_amount > 0
    /\ ~simCall.result.success
    /\ simCall.result.error = "ValueError"

(***************************************************************************)
(* SpatialEngine: the deployment pipeline                                  *)
(*                                                                         *)
(* Elevations are in metres, distances in whole kilometres, suitability    *)
(* scores in thousandths.  The 'interventions' table is a list of row      *)
(* dicts.  Two things are outside the arguments of the pipeline: the       *)
(* outcome of each query of the table, which raises when the service is    *)
(* unreachable, and each value drawn by random.uniform(-500, 500).         *)
(***************************************************************************)

\* SpatialEngine._estimate_elevation; variation is the value drawn by
\* random.uniform(-500, 500).
_estimate_elevation(latitude, longitude, variation) ==
    LET base_elevation ==
            IF 300 <= latitude /\ latitude <= 500
                 /\ -1200 <= longitude /\ longitude <= -700 THEN 2000
            ELSE IF 350 <= latitude /\ latitude <= 450
                 /\ 700 <= longitude /\ longitude <= 900 THEN 4000
            ELSE IF -400 <= latitude /\ latitude <= -200
                 /\ -800 <= longitude /\ longitude <= -500 THEN 3000
            ELSE 0
    IN  Max(0, base_elevation + variation)

\* SpatialEngine._get_land_cover
_get_land_cover(latitude, longitude) ==
    IF Abs(latitude) < 100 THEN "tropical_forest"
    ELSE IF Abs(latitude) < 300 THEN "temperate_forest"
    ELSE IF Abs(latitude) < 600 THEN "mixed_forest"
    ELSE "tundra"

\* zone_suitability.get(intervention_type, {}).get(climate_zone, 0.5), in tenths
zone_suitability(intervention_type, climate_zone) ==
    LET table ==
          [biochar |-> [tropical |-> 9, subtropical |-> 8, temperate |-> 7, polar |-> 3],
           DAC |-> [tropical |-> 7, subtropical |-> 8, temperate |-> 9, polar |-> 6],
           afforestation |-> [tropical |-> 9, subtropical |-> 8, temperate |-> 7, polar |-> 4]]
    IN  IF intervention_type \in DOMAIN table
        THEN Get(table[intervention_type], climate_zone, 5)
        ELSE 5

\* A suitability score that starts from a base score of 1.0.
_calculate_site_suitability_from_one(lat, lon, intervention_type, variation) ==
    LET elevation == _estimate_elevation(lat, lon, variation)
        by_elevation == IF elevation < 1000 THEN 10
                        ELSE IF elevation < 2000 THEN 8
                        ELSE 5
    IN  Min(1000, Max(0, 10 * zone_suitability(intervention_type, _get_climate_zone(lat))
                            * by_elevation))

\* SpatialEngine._calculate_site_suitability: base score 0.5 x zone
\* suitability x elevation suitability, clipped to [0, 1].
_calculate_site_suitability(lat, lon, intervention_type, variation) ==
    LET elevation == _estimate_elevation(lat, lon, variation)
        by_elevation == IF elevation < 1000 THEN 10
                        ELSE IF elevation < 2000 THEN 8
                        ELSE 5
    IN  Min(1000, Max(0, 5 * zone_suitability(intervention_type, _get_climate_zone(lat))
                            * by_elevation))

\* range(int(lo * 10), int(hi * 10) + 1, 5) as a list
GridAxis(lo, hi) ==
    [i \in 1..(IF hi >= lo THEN (hi - lo) \div 5 + 1 ELSE 0) |-> lo + 5 * (i - 1)]

\* The k-th value of a stream of draws that alternates between two values.
Draw(draws, k) == IF k % 2 = 1 THEN draws.odd ELSE draws.even

\* SpatialEngine._generate_candidate_sites: the grid points, latitude by
\* latitude, whose suitability score is above 0.5.  The k-th grid point
\* gets the k-th draw.
_generate_candidate_sites(lat_min, lat_max, lon_min, lon_max, intervention_type, draws) ==
    LET lats == GridAxis(lat_min, lat_max)
        lons == GridAxis(lon_min, lon_max)
        point(k) ==
            LET lat_deg == lats[((k - 1) \div Len(lons)) + 1]
                lon_deg == lons[((k - 1) % Len(lons)) + 1]
            IN  [suitability_score |->
                    _calculate_site_suitability(lat_deg, lon_deg,
                                                intervention_type, Draw(draws, k))]
                  @@ MakeSite(lat_deg, lon_deg, intervention_type)
        points == [k \in 1..(Len(lats) * Len(lons)) |-> point(k)]
    IN  SelectSeq(points, LAMBDA site : site.suitability_score > 500)

\* cos of 0, 10, ..., 90 degrees, in percent
cos_percent == <<100, 98, 94, 87, 77, 64, 50, 34, 17, 0>>

\* cos of a latitude, taken at the nearest multiple of 10 degrees
Cos(latitude) == cos_percent[((Abs(latitude) + 50) \div 100) + 1]

\* the whole part of the square root
ISqrt(n) == CHOOSE r \in 0..n : r * r <= n /\ n < (r + 1) * (r + 1)

\* SpatialEngine._calculate_distance: the haversine distance on a sphere of
\* radius 6371 km, in the form it takes between nearby points,
\*   R * sqrt(dlat^2 + cos(lat1) * cos(lat2) * dlon^2),
\* where a tenth of a degree of arc is 11.119 km.
_calculate_distance(lat1, lon1, lat2, lon2) ==
    LET delta_lat == lat2 - lat1
        delta_lon == lon2 - lon1
        a == delta_lat * delta_lat
               + (((Cos(lat1) * Cos(lat2)) \div 100) * delta_lon * delta_lon) \div 100
    IN  (11119 * ISqrt(a)) \div 1000

\* nearby_interventions.sort(key=distance_km): a stable ascending sort
RECURSIVE InsertByDistance(_, _)
InsertByDistance(sorted, x) ==
    IF sorted = <<>> THEN <<x>>
    ELSE IF x.distance_km < Head(sorted).distance_km THEN <<x>> \o sorted
    ELSE <<Head(sorted)>> \o InsertByDistance(Tail(sorted), x)

RECURSIVE SortByDistance(_)
SortByDistance(rows) ==
    IF rows = <<>> THEN <<>>
    ELSE InsertByDistance(SortByDistance(SubSeq(rows, 1, Len(rows) - 1)),
                          rows[Len(rows)])

\* SpatialEngine.find_nearby_interventions over the rows of the table;
\* query_fails says whether the query raises, in which case the except
\* clause returns [].
find_nearby_interventions(table, latitude, longitude, radius_km, query_fails) ==
    IF query_fails THEN <<>>
    ELSE
      LET measured ==
            [i \in 1..Len(table) |->
                ("distance_km" :> _calculate_distance(latitude, longitude,
                                                      Get(table[i], "latitude", 0),
                                                      Get(table[i], "longitude", 0)))
                  @@ table[i]]
      IN  SortByDistance(SelectSeq(measured, LAMBDA row : row["distance_km"] <= radius_km))

\* One pass of the loop of _apply_spatial_constraints: whether the site is
\* kept.  variation is the value drawn when the elevation is estimated.
SiteAllowed(site, constraints, table, query_fails, variation) ==
    /\ "min_distance_km" \in DOMAIN constraints
          => find_nearby_interventions(table, site.latitude, site.longitude,
                                       constraints["min_distance_km"],
                                       query_fails) = <<>>
    /\ "max_elevation" \in DOMAIN constraints
          => ~(_estimate_elevation(site.latitude, site.longitude, variation)
                  > constraints["max_elevation"])
    /\ "allowed_land_covers" \in DOMAIN constraints
          => _get_land_cover(site.latitude, site.longitude)
                \in constraints["allowed_land_covers"]

\* SpatialEngine._apply_spatial_constraints.  The i-th value of failures
\* says whether the query made for the i-th site raises; the i-th site gets
\* the i-th draw.
_apply_spatial_constraints(sites, constraints, table, failures, draws) ==
    LET numbered == [i \in 1..Len(sites) |-> [index |-> i, site |-> sites[i]]]
        kept == SelectSeq(numbered,
                          LAMBDA e : SiteAllowed(e.site, constraints, table,
                                                 Draw(failures, e.index),
                                                 Draw(draws, e.index)))
    IN  [i \in 1..Len(kept) |-> kept[i].site]

\* SpatialEngine._calculate_coverage_area
_calculate_coverage_area(deployment) == Len(deployment) * 100

\* SpatialEngine._calculate_average_distance
_calculate_average_distance(deployment) ==
    IF Len(deployment) < 2 THEN 0
    ELSE
      LET pairs == {p \in (1..Len(deployment)) \X (1..Len(deployment)) : p[1] < p[2]}
          distance(p) == _calculate_distance(deployment[p[1]].latitude,
                                             deployment[p[1]].longitude,
                                             deployment[p[2]].latitude,
                                             deployment[p[2]].longitude)
          RECURSIVE total(_)
          total(ps) == IF ps = {} THEN 0
                       ELSE LET p == CHOOSE q \in ps : TRUE
                            IN  distance(p) + total(ps \ {p})
      IN  total(pairs) \div Cardinality(pairs)

RECURSIVE SumImpact(_)
SumImpact(sites) ==
    IF sites = <<>> THEN 0
    ELSE Head(sites).estimated_impact + SumImpact(Tail(sites))

\* Python's a / b: the quotient, or ZeroDivisionError
Divide(a, b) ==
    IF b = 0 THEN [raised |-> TRUE, value |-> 0]
    ELSE [raised |-> FALSE, value |-> a \div b]

\* An efficiency that divides the impact by the coverage area as it is.
_calculate_spatial_efficiency_unguarded(deployment) ==
    Divide(SumImpact(deployment), _calculate_coverage_area(deployment))

\* SpatialEngine._calculate_spatial_efficiency: 0 for an empty deployment,
\* otherwise total impact / max(1, coverage area)
_calculate_spatial_efficiency(deployment) ==
    IF deployment = <<>> THEN Divide(0, 1)
    ELSE Divide(SumImpact(deployment), Max(1, _calculate_coverage_area(deployment)))

\* SpatialEngine.optimize_spatial_deployment.  draws are the values drawn
\* while the candidate sites are scored, redraws the values drawn while the
\* constraints are applied, failures the outcomes of the queries.
optimize_spatial_deployment(target_region, intervention_type, total_budget, table, failures, draws, redraws) ==
    LET candidate_sites ==
            _generate_candidate_sites(Get(target_region, "lat_min", -900),
                                      Get(target_region, "lat_max", 900),
                                      Get(target_region, "lon_min", -1800),
                                      Get(target_region, "lon_max", 1800),
                                      intervention_type, draws)
        constrained_sites ==
            _apply_spatial_constraints(candidate_sites,
                                       Get(target_region, "constraints", EmptyDict),
                                       table, failures, redraws)
        optimized_deployment ==
            _optimize_deployment(constrained_sites, intervention_type, total_budget)
        spatial_efficiency == _calculate_spatial_efficiency(optimized_deployment)
    IN  IF spatial_efficiency.raised
        THEN [success |-> FALSE, error |-> "ZeroDivisionError"]
        ELSE [success |-> TRUE,
              target_region |-> target_region,
              candidate_sites |-> Len(candidate_sites),
              constrained_sites |-> Len(constrained_sites),
              optimized_deployment |-> optimized_deployment,
              spatial_analysis |->
                 [coverage_area_km2 |-> _calculate_coverage_area(optimized_deployment),
                  average_distance_km |-> _calculate_average_distance(optimized_deployment),
                  spatial_efficiency |-> spatial_efficiency.value]]

\* ---- inputs of the pipeline ----
MaxGridSteps == 1    \* a target region spans up to this many grid steps each way
MaxConstrained == 2  \* sites handed to one call of the Constrain stage

\* south-west corners: the Appalachians, the Gulf of Guinea, and a point
\* half a degree south of the 60th parallel
RegionCorners == {<<350, -750>>, <<0, 0>>, <<595, 100>>}

ConstraintSets ==
    {EmptyDict,
     "min_distance_km" :> 10,
     "max_elevation" :> 2000,
     ("min_distance_km" :> 50) @@ ("max_elevation" :> 2000)
        @@ ("allowed_land_covers" :> {"temperate_forest", "mixed_forest"})}

TargetRegions ==
    {("lat_min" :> c[1]) @@ ("lat_max" :> c[1] + 5 * h)
        @@ ("lon_min" :> c[2]) @@ ("lon_max" :> c[2] + 5 * w)
        @@ extra :
        c \in RegionCorners, h \in 0..MaxGridSteps, w \in 0..MaxGridSteps,
        extra \in {EmptyDict} \cup {"constraints" :> k : k \in ConstraintSets}}

PipelineTypes == {"biochar", "DAC", "ocean_seeding"}
PipelineBudgets == {0, 23999, 1000000}

\* Contents of the 'interventions' table: empty; one intervention at
\* 45.0 N 0.1 E; one half a degree north of it and a row without
\* coordinates, which the lookup reads as 0, 0.
InterventionTables ==
    {<<>>,
     <<("latitude" :> 450) @@ ("longitude" :> 1)>>,
     <<("latitude" :> 455) @@ ("longitude" :> 1), EmptyDict>>}

ElevationDraws == {[odd |-> a, even |-> b] : a \in {-500, 500}, b \in {-500, 500}}

\* The sites handed to the Constrain stage: candidate sites of one type on
\* the equator or at 45 N.
ConstrainedLatLists == UNION {[1..n -> {0, 450}] : n \in 0..MaxConstrained}

SpatialRequests ==
    {[op |-> "request",
      method |-> "optimize_spatial_deployment",
      target_region |-> region,
      intervention_type |-> t,
      total_budget |-> b] :
        region \in TargetRegions, t \in PipelineTypes, b \in PipelineBudgets}
    \cup
    {[op |-> "request",
      method |-> "_apply_spatial_constraints",
      sites |-> SitesAt(lats, "biochar"),
      constraints |-> k] :
        lats \in ConstrainedLatLists, k \in ConstraintSets}

\* Whether each query of the table raises.
QueryOutcomes == {[odd |-> a, even |-> b] : a \in BOOLEAN, b \in BOOLEAN}

\* optimize_spatial_deployment is called with the arguments in hand.
OptimizeSpatialDeployment ==
    /\ spatialCall.method = "optimize_spatial_deployment"
    /\ \E draws \in ElevationDraws, redraws \in ElevationDraws,
          failures \in QueryOutcomes :
          spatialCall' =
             [op |-> "done",
              method |-> spatialCall.method,
              target_region |-> spatialCall.target_region,
              intervention_type |-> spatialCall.intervention_type,
              total_budget |-> spatialCall.total_budget,
              result |-> optimize_spatial_deployment(
                            spatialCall.target_region,
                            spatialCall.intervention_type,
                            spatialCall.total_budget,
                            interventions, failures, draws, redraws)]
    /\ UNCHANGED <<selectCall, ruleCall, engineVars, simCall, interventions,
                   cacheVars>>

\* _apply_spatial_constraints is called with the arguments in hand.
ApplySpatialConstraints ==
    /\ spatialCall.method = "_apply_spatial_constraints"
    /\ \E redraws \in ElevationDraws,
          failures \in QueryOutcomes :
          spatialCall' =
             [op |-> "done",
              method |-> spatialCall.method,
              sites |-> spatialCall.sites,
              constraints |-> spatialCall.constraints,
              failed |-> {i \in 1..Len(spatialCall.sites) : Draw(failures, i)},
              constrained_sites |->
                  _apply_spatial_constraints(spatialCall.sites,
                                             spatialCall.constraints,
                                             interventions, failures, redraws)]
    /\ UNCHANGED <<selectCall, ruleCall, engineVars, simCall, interventions,
                   cacheVars>>

InitSpatial ==
    /\ selectCall = NoCall
    /\ ruleCall = NoCall
    /\ EngineNotBuilt
    /\ simCall = NoCall
    /\ interventions \in InterventionTables
    /\ spatialCall \in SpatialRequests
    /\ CacheEmpty

NextSpatial ==
    \/ OptimizeSpatialDeployment
    \/ ApplySpatialConstraints

SpecSpatial == InitSpatial /\ [][NextSpatial]_vars

OptimizeReturned ==
    /\ spatialCall.op = "done"
    /\ spatialCall.method = "optimize_spatial_deployment"

\* C17: optimize_spatial_deployment with total_budget = 0, or with a budget
\* below the cost of the cheapest surviving site, returns success = true
\* with an empty optimized_deployment (coverage 0, average distance 0,
\* spatial efficiency 0), never an error result.
InfeasibleBudgetIsEmptyPlan ==
    (/\ OptimizeReturned
     /\ \/ spatialCall.total_budget = 0
        \/ LET lats == GridAxis(spatialCall.target_region["lat_min"],
                                spatialCall.target_region["lat_max"])
           IN  \A i \in 1..Len(lats) :
                  spatialCall.total_budget
                     < _estimate_site_cost(lats[i], 0, spatialCall.intervention_type))
        => /\ spatialCall.result.success
           /\ spatialCall.result.optimized_deployment = <<>>
           /\ spatialCall.result.spatial_analysis.coverage_area_km2 = 0
           /\ spatialCall.result.spatial_analysis.average_distance_km = 0
           /\ spatialCall.result.spatial_analysis.spatial_efficiency = 0

\* A call with a budget of 0 over a region of four grid points returned an
\* empty plan.
InfeasibleBudgetWitness ==
    /\ OptimizeReturned
    /\ spatialCall.total_budget = 0
    /\ spatialCall.target_region["lat_max"] > spatialCall.target_region["lat_min"]
    /\ spatialCall.target_region["lon_max"] > spatialCall.target_region["lon_min"]
    /\ spatialCall.result.success
    /\ spatialCall.result.optimized_deployment = <<>>

\* C18: when constraints contain min_distance_km, no site that survives the
\* Constrain stage lies within min_distance_km of any already-deployed
\* intervention, in every execution including those where the lookup of
\* existing interventions fails.
MinimumDistanceKept ==
    (/\ spatialCall.op = "done"
     /\ spatialCall.method = "_apply_spatial_constraints"
     /\ "min_distance_km" \in DOMAIN spatialCall.constraints)
        => \A i \in 1..Len(spatialCall.constrained_sites) :
              \A j \in 1..Len(interventions) :
                 _calculate_distance(spatialCall.constrained_sites[i].latitude,
                                     spatialCall.constrained_sites[i].longitude,
                                     Get(interventions[j], "latitude", 0),
                                     Get(interventions[j], "longitude", 0))
                    > spatialCall.constraints["min_distance_km"]

\* C20: two optimize_spatial_deployment calls with the same target region,
\* intervention type, budget and constraints, against the same set of
\* existing interventions, return the same candidate count, the same
\* constrained count and the same plan.
OptimizerIsFunction ==
    [][(OptimizeReturned /\ OptimizeReturned')
        => /\ spatialCall'.result.success = spatialCall.result.success
           /\ spatialCall.result.success
                => /\ spatialCall'.result.candidate_sites
                        = spatialCall.result.candidate_sites
                   /\ spatialCall'.result.constrained_sites
                        = spatialCall.result.constrained_sites
                   /\ spatialCall'.result.optimized_deployment
                        = spatialCall.result.optimized_deployment]_vars

\* A call over the Appalachians, where the elevation drawn for a grid point
\* decides between two suitability scores, has returned.
OptimizerWitness ==
    /\ OptimizeReturned
    /\ spatialCall.target_region["lat_min"] = 350
    /\ spatialCall.intervention_type = "DAC"
    /\ spatialCall.result.success
    /\ _calculate_site_suitability(350, -750, "DAC", -500)
         # _calculate_site_suitability(350, -750, "DAC", 500)

\* The grid points of the region of the call in hand.
GridPoints ==
    LET region == spatialCall.target_region
        lats == GridAxis(Get(region, "lat_min", -900), Get(region, "lat_max", 900))
        lons == GridAxis(Get(region, "lon_min", -1800), Get(region, "lon_max", 1800))
    IN  {<<lats[i], lons[j]>> : i \in 1..Len(lats), j \in 1..Len(lons)}

\* Every grid point of the region lies in the tropical zone and below
\* 1000 m, whatever the elevation draw.
TropicalLowland ==
    \A point \in GridPoints :
        /\ _get_climate_zone(point[1]) = "tropical"
        /\ \A draws \in ElevationDraws, k \in 1..2 :
              _estimate_elevation(point[1], point[2], Draw(draws, k)) < 1000

\* C26: for biochar, every grid point in the tropical zone whose estimated
\* elevation is below 1000 gets a suitability_score above 0.5 and is kept
\* as a candidate site: on a region of such points every grid point is a
\* candidate.
FavourablePointsKept ==
    (/\ OptimizeReturned
     /\ spatialCall.intervention_type = "biochar"
     /\ TropicalLowland)
    => /\ \A point \in GridPoints, draws \in ElevationDraws, k \in 1..2 :
             _calculate_site_suitability(point[1], point[2], "biochar",
                                         Draw(draws, k)) > 500
       /\ spatialCall.result.success
       /\ spatialCall.result.candidate_sites = Cardinality(GridPoints)

(***************************************************************************)
(* SpatialEngine.get_optimized_sites                                       *)
(*                                                                         *)
(* suitability_threshold and suitability_score are held in hundredths,     *)
(* time in seconds.  The arguments of a call are a dict: the key           *)
(* climate_zones is absent when the caller leaves the default None, and    *)
(* holds a sequence of strings otherwise.                                  *)
(***************************************************************************)

cache_ttl == 300

\* str() of a list of strings, without the brackets: "'a', 'b'"
RECURSIVE Joined(_)
Joined(strings) ==
    IF strings = <<>> THEN ""
    ELSE IF Len(strings) = 1 THEN "'" \o Head(strings) \o "'"
    ELSE "'" \o Head(strings) \o "', " \o Joined(Tail(strings))

\* str(climate_zones)
str_climate_zones(kwargs) ==
    IF "climate_zones" \in DOMAIN kwargs
    THEN "[" \o Joined(kwargs["climate_zones"]) \o "]"
    ELSE "None"

\* f"sites_{max_sites}_{suitability_threshold}_{str(climate_zones)}"
cache_key(kwargs) ==
    "sites_" \o ToString(kwargs["max_sites"])
        \o "_" \o ToString(kwargs["suitability_threshold"])
        \o "_" \o str_climate_zones(kwargs)

\* A freshness test that still accepts an entry exactly cache_ttl old.
IsFreshInclusive(cache_time, time) == time - cache_time <= cache_ttl

\* time.time() - cache_time < self.cache_ttl
IsFresh(cache_time, time) == time - cache_time < cache_ttl

\* int(6.48e6 * 0.3)
total_land_cells == 1944000

\* SpatialEngine._generate_optimized_site_list: min(suitable, max_sites)
\* sites, site i with id i and a suitability_score of the threshold plus
\* the i-th draw.  The other fields of a site are random draws that
\* nothing reads.
_generate_optimized_site_list(kwargs, draws) ==
    LET available_sites ==
            IF "climate_zones" \in DOMAIN kwargs /\ kwargs["climate_zones"] # <<>>
            THEN (total_land_cells * 4) \div 10
            ELSE total_land_cells
        suitable_sites ==
            (available_sites \div 100) * kwargs["suitability_threshold"]
        final_site_count == Min(suitable_sites, kwargs["max_sites"])
    IN  [i \in 1..final_site_count |->
            [id |-> i - 1,
             suitability_score |-> kwargs["suitability_threshold"] + Draw(draws, i)]]

\* ---- callers of get_optimized_sites ----
MaxListed == 2     \* the largest max_sites asked for
MaxQueries == 2    \* cache misses the model lets the engine record
MaxClock == 400    \* the clock stops here

SiteQueries ==
    {("max_sites" :> MaxListed) @@ ("suitability_threshold" :> 70),
     ("max_sites" :> 1) @@ ("suitability_threshold" :> 70)
         @@ ("climate_zones" :> <<"tropical">>),
     ("max_sites" :> 1) @@ ("suitability_threshold" :> 0)}

ScoreDraws == {[odd |-> 0, even |-> 30], [odd |-> 30, even |-> 0]}

\* Time passes between calls.
Wait ==
    /\ clock < MaxClock
    /\ clock' = clock + 100
    /\ UNCHANGED <<selectCall, ruleCall, engineVars, simCall, interventions,
                   spatialCall, spatial_cache, performance_metrics>>

\* get_optimized_sites: a fresh entry under the key of the arguments is
\* returned as it is; otherwise the list is generated (which takes
\* query_time seconds), the metrics get the query time and the number of
\* sites, and the entry of the key is replaced.
GetOptimizedSites ==
    \E kwargs \in SiteQueries, draws \in ScoreDraws, query_time \in {0, 100} :
        LET key == cache_key(kwargs)
            hit == /\ key \in DOMAIN spatial_cache
                   /\ IsFresh(spatial_cache[key].cache_time, clock)
            sites == _generate_optimized_site_list(kwargs, draws)
            returned(list, total, cache_hit) ==
                [op |-> "get_optimized_sites",
                 kwargs |-> kwargs,
                 start_time |-> clock,
                 result |-> [success |-> TRUE,
                             sites |-> list,
                             total_sites |-> total,
                             performance |-> [cache_hit |-> cache_hit]]]
        IN  /\ IF hit
               THEN /\ spatialCall' = returned(spatial_cache[key].sites,
                                               spatial_cache[key].total_sites, TRUE)
                    /\ UNCHANGED <<spatial_cache, performance_metrics, clock>>
               ELSE /\ Len(performance_metrics.query_times) < MaxQueries
                    /\ clock + query_time <= MaxClock
                    /\ clock' = clock + query_time
                    /\ performance_metrics' =
                           [performance_metrics EXCEPT
                               !.query_times = Append(@, query_time),
                               !.sites_processed = Append(@, Len(sites))]
                    /\ spatial_cache' =
                           (key :> [cache_time |-> clock + query_time,
                                    sites |-> sites,
                                    total_sites |-> Len(sites)]) @@ spatial_cache
                    /\ spatialCall' = returned(sites, Len(sites), FALSE)
            /\ UNCHANGED <<selectCall, ruleCall, engineVars, simCall, interventions>>

InitCache ==
    /\ selectCall = NoCall
    /\ ruleCall = NoCall
    /\ EngineNotBuilt
    /\ ServicesIdle

NextCache ==
    \/ Wait
    \/ GetOptimizedSites

SpecCache == InitCache /\ [][NextCache]_vars

\* C28: get_optimized_sites returns the cached list exactly when an entry
\* under the key of its arguments was stored less than 300 s before: the
\* list returned is then the stored one, and the cache and the metrics
\* stay as they are.  Otherwise the call generates a list, appends the
\* query to the performance metrics and stores the list under the key with
\* the time of storing, leaving the other entries alone.  A call that
\* follows a miss with the same arguments by less than 300 s returns the
\* list of that miss.
CacheFreshness ==
    [][(spatialCall'.op = "get_optimized_sites" /\ spatialCall' # spatialCall)
       => LET call == spatialCall'
              key == cache_key(call.kwargs)
              fresh == /\ key \in DOMAIN spatial_cache
                       /\ clock - spatial_cache[key].cache_time < 300
          IN  /\ call.result.success
              /\ call.result.performance.cache_hit <=> fresh
              /\ fresh => /\ call.result.sites = spatial_cache[key].sites
                          /\ spatial_cache' = spatial_cache
                          /\ performance_metrics' = performance_metrics
              /\ ~fresh
                 => /\ key \in DOMAIN spatial_cache'
                    /\ spatial_cache'[key] =
                           [cache_time |-> clock',
                            sites |-> call.result.sites,
                            total_sites |-> Len(call.result.sites)]
                    /\ \A other \in DOMAIN spatial_cache \ {key} :
                           /\ other \in DOMAIN spatial_cache'
                           /\ spatial_cache'[other] = spatial_cache[other]
                    /\ Len(performance_metrics'.query_times)
                           = Len(performance_metrics.query_times) + 1
                    /\ performance_metrics'.sites_processed
                           = Append(performance_metrics.sites_processed,
                                    Len(call.result.sites))
              /\ (/\ spatialCall.op = "get_optimized_sites"
                  /\ ~spatialCall.result.performance.cache_hit
                  /\ spatialCall.kwargs = call.kwargs
                  /\ call.start_time - spatialCall.start_time < 300)
                 => /\ call.result.performance.cache_hit
                    /\ call.result.sites = spatialCall.result.sites]_vars

\* A list is served from the cache after the entry of its key expired
\* once: both recorded misses were for this key, the second exactly 300 s
\* after the first was stored.
CacheFreshnessWitness ==
    /\ spatialCall.op = "get_optimized_sites"
    /\ spatialCall.result.performance.cache_hit
    /\ Len(spatialCall.result.sites) = MaxListed
    /\ Len(performance_metrics.query_times) = 2
    /\ DOMAIN spatial_cache = {cache_key(spatialCall.kwargs)}
    /\ spatial_cache[cache_key(spatialCall.kwargs)].cache_time = 300
    /\ spatialCall.start_time > 300

====
